---- MODULE Spec2Model ----
(***************************************************************************)
(* Model of the turo-scraper run: window expansion, URL building, the      *)
(* capture session with its bounded retry, sequential quote batches, the   *)
(* record mapper and the run loop with its per-instance try/catch/finally. *)
(* The line numbers in comments refer to src/unnamed/part_002, the latest  *)
(* iteration of the program; src/src/index.ts shares scrapeSearchUrl and   *)
(* the run loop with it.                                                   *)
(***************************************************************************)
EXTENDS Integers, Sequences, FiniteSets, TLC

(***************************************************************************)
(* Bounds of the model (not program constants).                            *)
(***************************************************************************)
\* Number of window instances in templateUrls for the run-loop specification.
NumInstances == 2
\* Active templates read by one run of the window expansion.
MaxTemplates == 2
\* Times the clock moves on while the windows are expanded.
MaxTicks == 1
\* The quote specification draws listing counts up to MaxChunks * BatchSize + 1
\* against a backend free to answer each chunk differently ...
MaxChunks == 2
\* ... and one large count against backends that answer every chunk alike.
BigListingCount == 200

(***************************************************************************)
(* Program constants.                                                      *)
(***************************************************************************)
\* `attempt < 3` (line 156): the attempt ceiling of scrapeSearchUrl.
MaxAttempts == 3
\* chunkArray(vehicles, 20) (line 163).
BatchSize == 20
\* const MIN_LEAD_MINUTES = 90 (line 68).
MIN_LEAD_MINUTES == 90
\* const SLOT_GRANULARITY_MINUTES = 30 (line 69).
SLOT_GRANULARITY_MINUTES == 30
\* const SLOT_DURATION_HOURS = 72 (line 72).
SLOT_DURATION_HOURS == 72

(***************************************************************************)
(* JavaScript values that may be null.                                     *)
(***************************************************************************)
JsNull == [tag |-> "null", val |-> 0]
JsNum(n) == [tag |-> "number", val |-> n]

\* A POST to /api/v2/search made by the page: the attempt whose navigation
\* loaded the page and the number of the call on that page.  Its post data,
\* the filter (age, dates.start, dates.end), is the page's own and stands
\* with the request.
NoRequest == [attempt |-> 0, call |-> 0]
\* A request taken for one of the first attempt, whatever the attempt.
RequestOfFirstAttempt(a, c) == [attempt |-> 1, call |-> c]
Request(a, c) == [attempt |-> a, call |-> c]

(***************************************************************************)
(* State.                                                                  *)
(***************************************************************************)
VARIABLES
  pc,           \* position of the single thread of control
  templateUrls, \* the expanded list of window instances (line 256)
  i,            \* run-loop index (line 333), 1-based here
  attempt,      \* scrapeSearchUrl's attempt parameter (line 130)
  gotos,        \* history: page.goto calls made for the current instance
  reqArmed,     \* a waitForRequest predicate is registered (line 131)
  respArmed,    \* a waitForResponse predicate is registered (line 141)
  reqCaught,    \* the armed request wait has resolved
  respCaught,   \* the armed response wait has resolved
  net,          \* the page's search call: "none", "requested", "responded"
  net2,         \* a second search call of the same page, likewise
  searchReq,    \* the request the request wait resolved with (line 134)
  filteredRes,  \* the request whose response the response wait resolved with
  respBody,     \* listing count carried by the search response that arrived
  missed,       \* history: a search response arrived while no wait was armed
  vehicles,     \* the parsed listing array (line 146)
  region,       \* the region determined at lines 149-153
  allQuotes,    \* the merged quote table (line 162)
  batchIdx,     \* index of the next chunk of vehicleChunks (line 164)
  returned,     \* history: the quote maps returned by the batches so far
  quotePayloads,  \* history: the bodies of the pricing requests issued (line 169)
  inFlight,     \* pricing requests issued and not yet answered
  results,      \* the records built by the mapper (line 181)
  docs,         \* the output sink: documents written (line 348)
  errors,       \* instances whose exception was logged by the catch (line 368)
  started,      \* history: instances whose loop body was entered
  delayed,      \* history: instances whose delay was waited for (line 372)
  outcome,      \* history: per instance, how scrapeSearchUrl ended
  thrownAt,     \* history: where the current instance's exception was raised
                \* ("waitForRequest": the unhandled rejection of the request wait)
  backend,      \* how the pricing endpoint answers during this run
  searchLocation,  \* searchLocation?.region of the search response's body (line 150)
  searchPayload,   \* the searchRegion and region fields of the search request's body (line 151)
  now,          \* the Date taken once at run start (line 223)
  baseAvailableSlot,  \* roundDownToSlot(addMinutes(now, 90), 30) (line 225)
  templates,    \* the active templates read from the store (line 229)
  templateIdx,  \* position of `for (const t of templates)` (line 267), 1-based
  consoleOut,   \* the console lines written by the window expansion
  clock,        \* the wall clock, which `new Date()` reads (line 223)
  contexts,     \* the instances whose browser context is open (lines 335, 374)
  pages         \* the instances whose page is open (lines 339, 373)

vars == << pc, templateUrls, i, attempt, gotos, reqArmed, respArmed, reqCaught,
           respCaught, net, net2, searchReq, filteredRes, respBody, missed,
           vehicles, region, allQuotes, batchIdx,
           returned, quotePayloads, inFlight, results, docs, errors, started, delayed,
           outcome, thrownAt,
           backend, searchLocation, searchPayload, now, baseAvailableSlot, templates,
           templateIdx, consoleOut, clock,
           contexts, pages >>

(***************************************************************************)
(* Pure helpers of the program.                                            *)
(***************************************************************************)
Min(a, b) == IF a <= b THEN a ELSE b

\* slice with an inclusive end.
ArraySliceInclusive(arr, b, e) == SubSeq(arr, b + 1, Min(e + 1, Len(arr)))

\* Array.prototype.slice(b, e) for 0 <= b <= e, 0-based and end-exclusive.
ArraySlice(arr, b, e) == SubSeq(arr, b + 1, Min(e, Len(arr)))

\* The loop of chunkArray (line 46), from 0-based index k on.
RECURSIVE ChunkFrom(_, _, _)
ChunkFrom(arr, size, k) ==
  IF k < Len(arr)
  THEN << ArraySlice(arr, k, k + size) >> \o ChunkFrom(arr, size, k + size)
  ELSE << >>

\* The whole array as one chunk.
chunkArrayWhole(arr, size) == IF arr = << >> THEN << >> ELSE << arr >>

\* chunkArray (lines 44-48).
chunkArray(arr, size) == ChunkFrom(arr, size, 0)

\* The listing array of a search response with n vehicles whose ids are
\* 101, 102, ...; with period p > 0 the ids repeat after p listings.
MkListings(n, p) ==
  [k \in 1..n |-> [id |-> 101 + (IF p > 0 THEN (k - 1) % p ELSE k - 1)]]

\* The ids of a sequence of listings.
IdsOf(listings) == { listings[k].id : k \in 1..Len(listings) }

\* A quote as the mapper reads it: q.totalTripPrice is an object or is
\* undefined; q.totalTripPrice.amount is a number (in tenths) or null.
Priced(tenths) == [totalTripPrice |-> "object", amount |-> JsNum(tenths)]
NullAmount == [totalTripPrice |-> "object", amount |-> JsNull]
NoPriceObject == [totalTripPrice |-> "undefined", amount |-> JsNull]

\* The empty object {} (line 162).
EmptyObject == [k \in {} |-> NoPriceObject]

\* Object.assign mistaken for an assignment: the table is replaced by the batch's map.
ObjectAssignReplaces(target, source) == source

\* Object.assign(target, source) (line 178): key-wise, the source wins.
ObjectAssign(target, source) ==
  [k \in (DOMAIN target) \cup (DOMAIN source) |->
     IF k \in DOMAIN source THEN source[k] ELSE target[k]]

\* Math.round of a number given in tenths: round half towards +infinity.
MathRoundTenths(t) == (t + 5) \div 10

\* findIndex taken for findLastIndex: the index of the last match.
FindLastIndexPlus1(listings, id) ==
  LET hits == { k \in 1..Len(listings) : listings[k].id = id }
  IN  IF hits = {} THEN 0 ELSE CHOOSE k \in hits : \A m \in hits : k >= m

\* vehicles.findIndex(x => x.id === id) + 1 (line 188): 0-based index of the
\* first match plus one, i.e. the 1-based index of the first match.
FindIndexPlus1(listings, id) ==
  LET hits == { k \in 1..Len(listings) : listings[k].id = id }
  IN  IF hits = {} THEN 0 ELSE CHOOSE k \in hits : \A m \in hits : k <= m

\* q?.totalTripPrice.amount != null ? Math.round(...) : null (line 187).
\* Evaluating it raises a TypeError when q is an object without
\* totalTripPrice; TotalQuotedThrows says so.
TotalQuotedThrows(quotes, id) ==
  id \in DOMAIN quotes /\ quotes[id].totalTripPrice = "undefined"

TotalQuoted(quotes, id) ==
  IF id \notin DOMAIN quotes THEN JsNull
  ELSE IF quotes[id].amount.tag = "number"
       THEN JsNum(MathRoundTenths(quotes[id].amount.val))
       ELSE JsNull

\* vehicles.map(...) (lines 181-190); title and image are projections of
\* listing fields that no quote enters and are left out.
RecordMapper(listings, quotes) ==
  [k \in 1..Len(listings) |->
     [id |-> listings[k].id,
      totalQuoted |-> TotalQuoted(quotes, listings[k].id),
      position |-> FindIndexPlus1(listings, listings[k].id)]]

MapperThrows(listings, quotes) ==
  \E k \in 1..Len(listings) : TotalQuotedThrows(quotes, listings[k].id)

\* What the pricing endpoint may answer for one chunk: quoteJson.estimatedQuotes.
\* The backend is not under the program's control; it may price every id,
\* none, leave an amount null, omit the price object, or answer for an id
\* of the window that is not in this chunk.
QuoteResponse(kind, chunk, listings) ==
  LET ids == IdsOf(chunk)
      first == chunk[1].id
  IN  CASE kind = "all" -> [k \in ids |-> Priced(1504 + 11 * (k - 101))]
        [] kind = "none" -> EmptyObject
        [] kind = "nullAmount" -> [k \in {first} |-> NullAmount]
        [] kind = "noPrice" -> [k \in {first} |-> NoPriceObject]
        [] kind = "foreign" -> [k \in {first, listings[1].id} |-> Priced(995)]

BackendKinds == {"all", "none", "nullAmount", "noPrice", "foreign"}

\* The answers a backend may give for a chunk: any of them when it is
\* unconstrained, always the same kind otherwise.
QuoteResponses(be, chunk, listings) ==
  { QuoteResponse(kind, chunk, listings) :
      kind \in IF be = "any" THEN BackendKinds ELSE {be} }

(***************************************************************************)
(* Dates.  A Date is its time value in seconds since 2026-01-01T00:00:00Z  *)
(* (milliseconds behave like the seconds and are left out).  The program   *)
(* reads and sets local-time fields; the workflow runs it with             *)
(* TZ=America/New_York, whose 2026 transitions are modelled.               *)
(***************************************************************************)
\* 2026-03-08T07:00:00Z: 02:00 EST becomes 03:00 EDT.
SpringForward == 66 * 86400 + 7 * 3600
\* 2026-11-01T06:00:00Z: 02:00 EDT becomes 01:00 EST.
FallBack == 304 * 86400 + 6 * 3600

\* Offset of local time from UTC at time value t.
TzOffset(t) ==
  IF SpringForward <= t /\ t < FallBack THEN 0 - 4 * 3600 ELSE 0 - 5 * 3600

\* LocalTime(t) of ECMA-262.
LocalTime(t) == t + TzOffset(t)

\* UTC(t) of ECMA-262: a local time that is skipped or repeated by a
\* transition is interpreted with the offset in force before the transition.
UTC(l) ==
  IF l < SpringForward - 4 * 3600 THEN l + 5 * 3600
  ELSE IF l < FallBack - 4 * 3600 THEN l + 4 * 3600
  ELSE l + 5 * 3600

\* Date.prototype.getMinutes / getHours.
getMinutes(d) == (LocalTime(d) \div 60) % 60
getHours(d) == (LocalTime(d) \div 3600) % 24

\* Date.prototype.setMinutes(m): the local minute field is replaced (values
\* outside 0..59 carry), the other local fields are kept.
setMinutes(d, m) ==
  LET l == LocalTime(d)
  IN  UTC((l \div 3600) * 3600 + m * 60 + (l % 60))

\* Date.prototype.setMinutes(m, 0, 0): seconds and milliseconds are zeroed.
setMinutesZeroSeconds(d, m) ==
  LET l == LocalTime(d)
  IN  UTC((l \div 3600) * 3600 + m * 60)

\* addMinutes with the minutes subtracted.
addMinutesNegated(d, mins) == setMinutes(d, getMinutes(d) - mins)

\* addMinutes (lines 54-58).
addMinutes(d, mins) == setMinutes(d, getMinutes(d) + mins)

\* roundDownToSlot rounding up to the next slot.
roundUpToSlot(d, slotMinutes) ==
  setMinutesZeroSeconds(d, ((getMinutes(d) \div slotMinutes) + 1) * slotMinutes)

\* roundDownToSlot flooring the hours as well.
roundDownToDay(d, slotMinutes) == UTC((LocalTime(d) \div 86400) * 86400)

\* roundDownToSlot (lines 60-66).
roundDownToSlot(d, slotMinutes) ==
  setMinutesZeroSeconds(d, (getMinutes(d) \div slotMinutes) * slotMinutes)

(***************************************************************************)
(* Hours.  offsetHours and durationHours are numbers; a value h is held as *)
(* the integer 120 * h, so that h * 60 can fall on a half minute.          *)
(***************************************************************************)
Hours(h) == 120 * h

\* Math.round(h * 60) (lines 307-308): round half towards +infinity.
MinutesOf(h120) == (h120 + 1) \div 2

\* A value that may be undefined (or null).
Undefined == [def |-> FALSE, v |-> 0]
Some(x) == [def |-> TRUE, v |-> x]
NoString == [def |-> FALSE, v |-> ""]

\* Lines 302-303 and 318-319: the template's own number wins over the
\* slot's, absent both the offset is 0; a negative offset becomes 0.
OffsetUsed(tOffset, slotOffset) ==
  LET o == IF tOffset.def THEN tOffset.v
           ELSE IF slotOffset.def THEN slotOffset.v ELSE 0
  IN  IF o < 0 THEN 0 ELSE o

\* Lines 304-305 and 320-321: likewise, with the default duration; a
\* duration below 1 hour becomes the default.
DurationUsed(tDuration, slotDuration) ==
  LET u == IF tDuration.def THEN tDuration.v
           ELSE IF slotDuration.def THEN slotDuration.v
           ELSE Hours(SLOT_DURATION_HOURS)
  IN  IF u < Hours(1) THEN Hours(SLOT_DURATION_HOURS) ELSE u

\* Lines 307-308 and 323-324.
WindowStart(base, offset) == addMinutes(base, MinutesOf(offset))
WindowEnd(start, duration) == addMinutes(start, MinutesOf(duration))

(***************************************************************************)
(* Strings and URLs.  A string is a sequence of tokens: single characters, *)
(* and, as one token each, the origin-and-path of a URL, a parameter name  *)
(* and a percent-encoded byte.                                             *)
(***************************************************************************)
DigitChars == << "0", "1", "2", "3", "4", "5", "6", "7", "8", "9" >>

\* n.toString() for 0 <= n <= 9999.
RECURSIVE NumberToString(_)
NumberToString(n) ==
  IF n < 10 THEN << DigitChars[n + 1] >>
  ELSE NumberToString(n \div 10) \o << DigitChars[(n % 10) + 1] >>

\* pad2 without the padding.
pad2Unpadded(n) == NumberToString(n)

\* pad2 (line 49): n.toString().padStart(2, '0').
pad2(n) ==
  IF Len(NumberToString(n)) < 2 THEN << "0" >> \o NumberToString(n)
  ELSE NumberToString(n)

\* Days of the months of 2026 and of 2027 (neither is a leap year).
MonthDays == << 31, 28, 31, 30, 31, 30, 31, 31, 30, 31, 30, 31 >>

\* Local day number (0 = 2026-01-01) and the local calendar fields.
LocalDay(d) == LocalTime(d) \div 86400
getFullYear(d) == 2026 + (LocalDay(d) \div 365)

RECURSIVE MonthFrom(_, _)
MonthFrom(dayOfYear, m) ==
  IF dayOfYear < MonthDays[m + 1] THEN << m, dayOfYear + 1 >>
  ELSE MonthFrom(dayOfYear - MonthDays[m + 1], m + 1)

\* Date.prototype.getMonth (0-based) and getDate (1-based).
getMonth(d) == MonthFrom(LocalDay(d) % 365, 0)[1]
getDate(d) == MonthFrom(LocalDay(d) % 365, 0)[2]

\* formatDate (line 50): MM/DD/YYYY.
formatDate(d) ==
  pad2(getMonth(d) + 1) \o << "/" >> \o pad2(getDate(d)) \o << "/" >>
    \o NumberToString(getFullYear(d))

\* formatTime (line 51): HH:MM.
formatTime(d) == pad2(getHours(d)) \o << ":" >> \o pad2(getMinutes(d))

\* The only origin-and-path the model's parseable URLs have.
SearchPage == "https://turo.com/us/en/search"

\* application/x-www-form-urlencoded byte serializing and its inverse, for
\* the characters of the model.
EncodeChar(c) ==
  CASE c = "/" -> "%2F"
    [] c = ":" -> "%3A"
    [] c = " " -> "+"
    [] c = "+" -> "%2B"
    [] OTHER -> c

DecodeToken(t) ==
  CASE t = "%2F" -> "/"
    [] t = "%3A" -> ":"
    [] t = "+" -> " "
    [] t = "%2B" -> "+"
    [] t = "%20" -> " "
    [] OTHER -> t

Encode(str) == [k \in 1..Len(str) |-> EncodeChar(str[k])]
Decode(str) == [k \in 1..Len(str) |-> DecodeToken(str[k])]

\* Index of the first token equal to tok in str, 0 if there is none.
IndexOf(str, tok) ==
  LET hits == { k \in 1..Len(str) : str[k] = tok }
  IN  IF hits = {} THEN 0 ELSE CHOOSE k \in hits : \A m \in hits : k <= m

\* The application/x-www-form-urlencoded parser: the query is split at "&",
\* empty pieces are dropped, each piece is split at its first "=".
RECURSIVE ParseQuery(_)
ParseQuery(q) ==
  IF q = << >> THEN << >>
  ELSE LET amp == IndexOf(q, "&")
           piece == IF amp = 0 THEN q ELSE SubSeq(q, 1, amp - 1)
           rest == IF amp = 0 THEN << >> ELSE SubSeq(q, amp + 1, Len(q))
           eq == IndexOf(piece, "=")
           name == IF eq = 0 THEN piece ELSE SubSeq(piece, 1, eq - 1)
           value == IF eq = 0 THEN << >> ELSE SubSeq(piece, eq + 1, Len(piece))
       IN  IF piece = << >> THEN ParseQuery(rest)
           ELSE << [k |-> Decode(name), v |-> Decode(value)] >> \o ParseQuery(rest)

\* The serializer: name=value pairs joined by "&".
RECURSIVE SerializeQuery(_)
SerializeQuery(params) ==
  IF params = << >> THEN << >>
  ELSE Encode(params[1].k) \o << "=" >> \o Encode(params[1].v)
       \o (IF Len(params) > 1 THEN << "&" >> ELSE << >>)
       \o SerializeQuery(Tail(params))

\* new URL(str) throws a TypeError unless str is an absolute URL.
Parseable(str) == Len(str) >= 1 /\ str[1] = SearchPage

\* new URL(str).searchParams, as a list of (name, value) pairs.
SearchParams(str) ==
  IF Len(str) >= 3 /\ str[2] = "?" THEN ParseQuery(SubSeq(str, 3, Len(str)))
  ELSE << >>

\* u.toString() once searchParams has been updated: the query is the
\* serialized list, and no "?" remains when the list is empty.
UrlToString(params) ==
  IF params = << >> THEN << SearchPage >>
  ELSE << SearchPage, "?" >> \o SerializeQuery(params)

\* URLSearchParams.delete(name): every pair named name is removed.
ParamsDelete(params, name) == SelectSeq(params, LAMBDA p : p.k # name)

RECURSIVE ParamsDeleteAll(_, _)
ParamsDeleteAll(params, names) ==
  IF names = << >> THEN params
  ELSE ParamsDeleteAll(ParamsDelete(params, Head(names)), Tail(names))

\* URLSearchParams.append(name, value): a pair is added at the end.
ParamsAppend(params, name, value) == Append(params, [k |-> name, v |-> value])

\* URLSearchParams.set(name, value): the first pair named name gets the
\* value and the others are removed; without one, a pair is appended.
ParamsSet(params, name, value) ==
  LET first == IndexOf([k \in 1..Len(params) |-> params[k].k], name)
  IN  IF first = 0 THEN Append(params, [k |-> name, v |-> value])
      ELSE SubSeq(params, 1, first - 1) \o << [k |-> name, v |-> value] >>
           \o ParamsDelete(SubSeq(params, first + 1, Len(params)), name)

\* The names removed at line 105.
DateParamNames ==
  << << "startDate" >>, << "startTime" >>, << "endDate" >>, << "endTime" >>,
     << "monthlyStartDate" >>, << "monthlyEndDate" >> >>

\* Line 106: for each pair of the list as it is after line 105, if its value
\* is '' every pair of that name is deleted.
RECURSIVE DeleteEmptyValued(_, _)
DeleteEmptyValued(params, snapshot) ==
  IF snapshot = << >> THEN params
  ELSE DeleteEmptyValued(
         IF Head(snapshot).v = << >> THEN ParamsDelete(params, Head(snapshot).k)
         ELSE params,
         Tail(snapshot))

\* The same without the catch of line 108: the query is rewritten whether or
\* not the string is an absolute URL.
cleanUrlUnguarded(rawUrl) ==
  LET kept == ParamsDeleteAll(SearchParams(rawUrl), DateParamNames)
  IN  UrlToString(DeleteEmptyValued(kept, kept))

\* cleanUrlRemoveDateParams (lines 102-112).
cleanUrlRemoveDateParams(rawUrl) ==
  IF ~Parseable(rawUrl) THEN rawUrl
  ELSE LET kept == ParamsDeleteAll(SearchParams(rawUrl), DateParamNames)
       IN  UrlToString(DeleteEmptyValued(kept, kept))

\* addDateParamsToUrl (lines 115-127).
addDateParamsToUrl(baseUrl, start, end) ==
  IF ~Parseable(baseUrl) THEN baseUrl
  ELSE LET p1 == ParamsSet(SearchParams(baseUrl), << "startDate" >>, formatDate(start))
           p2 == ParamsSet(p1, << "startTime" >>, formatTime(start))
           p3 == ParamsSet(p2, << "endDate" >>, formatDate(end))
           p4 == ParamsSet(p3, << "endTime" >>, formatTime(end))
       IN  UrlToString(p4)

\* Template URLs as stored.  A bare search page; one with a region, a stale
\* start date, an empty start time and an age; one with a duplicated end
\* time and a monthly start date; one with an empty and a non-empty region,
\* an encoded blank and an empty end date; one that is not an absolute URL.
UrlBare == << SearchPage >>
UrlStale ==
  << SearchPage, "?", "region", "=", "N", "Y", "&",
     "startDate", "=", "0", "1", "%2F", "0", "1", "%2F", "2", "0", "2", "5", "&",
     "startTime", "=", "&", "age", "=", "2", "5" >>
UrlDuplicates ==
  << SearchPage, "?", "endTime", "=", "1", "0", ":", "0", "0", "&",
     "endTime", "=", "1", "1", "%3A", "3", "0", "&",
     "monthlyStartDate", "=", "x", "&", "pickupType", "=", "A", "L", "L" >>
UrlEmptyValues ==
  << SearchPage, "?", "region", "=", "&", "region", "=", "N", "Y", "&",
     "location", "=", "N", "+", "Y", "&", "endDate", "=" >>
UrlInvalid == << "turo.com/search", "?", "startDate", "=", "1" >>

\* The window of the instance URLs of the run loop.
RunWindowStart == 10 * 86400
RunWindowEnd == RunWindowStart + SLOT_DURATION_HOURS * 3600

\* URLs as page.goto receives them: a stored URL stripped and given a window.
InstanceUrl(stored) ==
  addDateParamsToUrl(cleanUrlRemoveDateParams(stored), RunWindowStart, RunWindowEnd)

(***************************************************************************)
(* The region of a window (lines 149-154).                                 *)
(***************************************************************************)
\* A string-valued field that is absent (undefined or null).
Absent == [def |-> FALSE, v |-> << >>]

\* What `||` passes over: undefined, null and ''.
Falsy(x) == ~x.def \/ x.v = << >>

\* a ?? b: b when a is undefined or null, a otherwise (also when a is '').
Coalesce(a, b) == IF a.def THEN a ELSE b

\* URLSearchParams.get(name): the value of the first pair named name, or null.
ParamsGet(params, name) ==
  LET first == IndexOf([k \in 1..Len(params) |-> params[k].k], name)
  IN  IF first = 0 THEN Absent ELSE Some(params[first].v)

\* The body of the search request as far as the region reads it (line 151).
SearchPayload(searchRegion, reqRegion) ==
  [searchRegion |-> searchRegion, region |-> reqRegion]

\* `new URL(url)` of line 152 is evaluated, and throws, only when the two
\* operands before it are falsy and url is not an absolute URL.
RegionThrows(loc, payload, url) ==
  /\ Falsy(loc)
  /\ Falsy(Coalesce(payload.searchRegion, payload.region))
  /\ ~Parseable(url)

\* The request's fields consulted before the response's.
RegionOfRequestFirst(loc, payload, url) ==
  LET echoed == Coalesce(payload.searchRegion, payload.region)
      param == ParamsGet(SearchParams(url), << "region" >>)
  IN  IF ~Falsy(echoed) THEN echoed.v
      ELSE IF ~Falsy(loc) THEN loc.v
      ELSE IF ~Falsy(param) THEN param.v
      ELSE << >>

\* Lines 149-153: searchJson.searchLocation?.region ||
\* (searchPayload.searchRegion ?? searchPayload.region) ||
\* new URL(url).searchParams.get('region') || ''.
RegionOf(loc, payload, url) ==
  LET echoed == Coalesce(payload.searchRegion, payload.region)
      param == ParamsGet(SearchParams(url), << "region" >>)
  IN  IF ~Falsy(loc) THEN loc.v
      ELSE IF ~Falsy(echoed) THEN echoed.v
      ELSE IF ~Falsy(param) THEN param.v
      ELSE << >>

(***************************************************************************)
(* Templates, the slot lookup table and window expansion (lines 229-331).  *)
(***************************************************************************)
\* An element of t.slotsIds: a string or a number.
SlotName(name) == [t |-> "string", s |-> name, n |-> 0]
SlotNumber(num) == [t |-> "number", s |-> "", n |-> num]

\* The stored `slots` field of a template: an array, a string (a sequence of
\* characters), an integer, another number, or nothing.
SlotsArray(arr) == [kind |-> "array", arr |-> arr, str |-> << >>, num |-> 0]
SlotsString(str) == [kind |-> "string", arr |-> << >>, str |-> str, num |-> 0]
SlotsInteger(n) == [kind |-> "integer", arr |-> << >>, str |-> << >>, num |-> n]
SlotsFraction == [kind |-> "fraction", arr |-> << >>, str |-> << >>, num |-> 0]
SlotsAbsent == [kind |-> "undefined", arr |-> << >>, str |-> << >>, num |-> 0]

\* split that does not split.
SplitNowhere(str) == << str >>

\* String.prototype.split(','): the pieces between the commas, empty ones
\* included.
RECURSIVE Split(_)
Split(str) ==
  LET comma == IndexOf(str, ",")
  IN  IF comma = 0 THEN << str >>
      ELSE << SubSeq(str, 1, comma - 1) >> \o Split(SubSeq(str, comma + 1, Len(str)))

\* String.prototype.trim, for blanks.
RECURSIVE Trim(_)
Trim(str) ==
  IF str = << >> THEN str
  ELSE IF Head(str) = " " THEN Trim(Tail(str))
  ELSE IF str[Len(str)] = " " THEN Trim(SubSeq(str, 1, Len(str) - 1))
  ELSE str

\* /^[0-9]+$/.test(a) and parseInt(a, 10) for such a string.
IsDigits(str) ==
  /\ str # << >>
  /\ \A k \in 1..Len(str) : \E d \in 1..10 : DigitChars[d] = str[k]
DigitValue(c) == (CHOOSE d \in 1..10 : DigitChars[d] = c) - 1
RECURSIVE ParseInt(_)
ParseInt(str) ==
  IF str = << >> THEN 0
  ELSE 10 * ParseInt(SubSeq(str, 1, Len(str) - 1)) + DigitValue(str[Len(str)])

\* The string a sequence of characters stands for.
RECURSIVE Join(_)
Join(str) == IF str = << >> THEN "" ELSE Head(str) \o Join(Tail(str))

\* parseSlotsField without the trim.
parseSlotsFieldUntrimmed(val) ==
  CASE val.kind = "array" -> val.arr
    [] val.kind = "string" ->
         LET arr == SelectSeq(Split(val.str), LAMBDA a : a # << >>)
         IN  IF \A k \in 1..Len(arr) : IsDigits(arr[k])
             THEN [k \in 1..Len(arr) |-> SlotNumber(ParseInt(arr[k]))]
             ELSE [k \in 1..Len(arr) |-> SlotName(Join(arr[k]))]
    [] val.kind = "integer" -> << SlotNumber(val.num) >>
    [] OTHER -> << >>

\* parseSlotsField (lines 74-84), with `?? undefined` of line 239: an
\* undefined result and an empty array are both the empty sequence.
parseSlotsField(val) ==
  CASE val.kind = "array" -> val.arr
    [] val.kind = "string" ->
         LET pieces == Split(val.str)
             trimmed == [k \in 1..Len(pieces) |-> Trim(pieces[k])]
             arr == SelectSeq(trimmed, LAMBDA a : a # << >>)
         IN  IF \A k \in 1..Len(arr) : IsDigits(arr[k])
             THEN [k \in 1..Len(arr) |-> SlotNumber(ParseInt(arr[k]))]
             ELSE [k \in 1..Len(arr) |-> SlotName(Join(arr[k]))]
    [] val.kind = "integer" -> << SlotNumber(val.num) >>
    [] OTHER -> << >>

\* slotOptionsMap as getActiveSlotsById builds it (lines 87-99): each
\* stored slot with its offsetHours (0 if not a number) and durationHours
\* (72 if not a number).  "A" is an ordinary slot; "Q" has a quarter-hour
\* offset and a duration of 60.5 minutes; "N" a negative offset and a
\* duration below one hour.
slotOptionsMap ==
  [ A |-> [offsetHours |-> Hours(1), durationHours |-> Hours(72)],
    Q |-> [offsetHours |-> 30, durationHours |-> 121],
    N |-> [offsetHours |-> 0 - Hours(2), durationHours |-> 60] ]

\* slotOption?.offsetHours and slotOption?.durationHours (lines 301-304).
SlotOffset(slotId) ==
  IF slotId \in DOMAIN slotOptionsMap
  THEN Some(slotOptionsMap[slotId].offsetHours) ELSE Undefined
SlotDuration(slotId) ==
  IF slotId \in DOMAIN slotOptionsMap
  THEN Some(slotOptionsMap[slotId].durationHours) ELSE Undefined

\* SLOT_OFFSETS[num] (line 71: the table is empty).
LegacyOffset(num) == Undefined

\* Lines 268-280: the string ids of t.slotsIds if it has any, else t.slotId
\* when it is truthy.
slotsToCreateIds(t) ==
  LET strings == SelectSeq(t.slotsIds, LAMBDA x : x.t = "string")
  IN  IF strings # << >> THEN [k \in 1..Len(strings) |-> strings[k].s]
      ELSE IF t.slotId.def /\ t.slotId.v # "" THEN << t.slotId.v >>
      ELSE << >>

\* Lines 271-276: the numbers of t.slotsIds when it holds no string.
legacySlotNumbers(t) ==
  LET strings == SelectSeq(t.slotsIds, LAMBDA x : x.t = "string")
      nums == SelectSeq(t.slotsIds, LAMBDA x : x.t = "number")
  IN  IF strings = << >> THEN [k \in 1..Len(nums) |-> nums[k].n] ELSE << >>

\* Line 282.
hasAnySlot(t) ==
  \/ Len(slotsToCreateIds(t)) > 0
  \/ Len(legacySlotNumbers(t)) > 0
  \/ t.slot.def

\* The raw instance with the date parameters stripped from its URL.
RawInstanceStripped(t) ==
  [docId |-> t.id, url |-> cleanUrlRemoveDateParams(t.url), slotId |-> NoString,
   slotLegacy |-> Undefined, offset |-> Undefined, duration |-> Undefined,
   raw |-> TRUE, start |-> 0, end |-> 0]

\* Lines 286-293: the raw instance of a template without slot.
RawInstance(t) ==
  [docId |-> t.id, url |-> t.url, slotId |-> NoString, slotLegacy |-> Undefined,
   offset |-> Undefined, duration |-> Undefined, raw |-> TRUE,
   start |-> 0, end |-> 0]

\* Lines 301-312 and 318-328: one window instance.  start and end are kept
\* beside the fields the program stores.
WindowInstance(t, base, slotId, slotLegacy, slotOffset, slotDuration) ==
  LET offset == OffsetUsed(t.offsetHours, slotOffset)
      duration == DurationUsed(t.durationHours, slotDuration)
      start == WindowStart(base, offset)
      end == WindowEnd(start, duration)
  IN  [docId |-> t.id,
       url |-> addDateParamsToUrl(cleanUrlRemoveDateParams(t.url), start, end),
       slotId |-> slotId, slotLegacy |-> slotLegacy,
       offset |-> Some(offset), duration |-> Some(duration), raw |-> FALSE,
       start |-> start, end |-> end]

\* The body of `for (const t of templates)` (lines 267-331).
ExpandOne(t, base) ==
  IF ~hasAnySlot(t) THEN << RawInstance(t) >>
  ELSE LET ids == slotsToCreateIds(t)
           nums == legacySlotNumbers(t)
       IN  [k \in 1..Len(ids) |->
              WindowInstance(t, base, Some(ids[k]), Undefined,
                             SlotOffset(ids[k]), SlotDuration(ids[k]))]
           \o
           [k \in 1..Len(nums) |->
              WindowInstance(t, base, NoString, Some(nums[k]),
                             LegacyOffset(nums[k]), Undefined)]

\* A console line: its level, the source line that writes it, and the
\* template and the slot its text names (the warnings of lines 109 and 124
\* name a URL, attributed here to its template).
ConsoleLine(level, line, t, slotId, slotLegacy) ==
  [level |-> level, line |-> line, docId |-> t.id, slotId |-> slotId,
   slotLegacy |-> slotLegacy]

\* The lines one slot of a template writes: the warning of
\* addDateParamsToUrl's catch (line 124, which names the URL and no slot),
\* then the log of the window at logLine (311 or 327).
SlotConsole(t, logLine, slotId, slotLegacy) ==
  (IF Parseable(cleanUrlRemoveDateParams(t.url)) THEN << >>
   ELSE << ConsoleLine("warn", 124, t, NoString, Undefined) >>)
  \o << ConsoleLine("log", logLine, t, slotId, slotLegacy) >>

RECURSIVE ConcatLines(_)
ConcatLines(seqs) ==
  IF seqs = << >> THEN << >> ELSE Head(seqs) \o ConcatLines(Tail(seqs))

\* What the body of `for (const t of templates)` writes to the console:
\* line 285 for a raw template; else the warning of
\* cleanUrlRemoveDateParams's catch (line 109) and the lines of each slot.
ExpandConsole(t, base) ==
  IF ~hasAnySlot(t) THEN << ConsoleLine("log", 285, t, NoString, Undefined) >>
  ELSE LET ids == slotsToCreateIds(t)
           nums == legacySlotNumbers(t)
       IN  (IF Parseable(t.url) THEN << >>
            ELSE << ConsoleLine("warn", 109, t, NoString, Undefined) >>)
           \o ConcatLines([k \in 1..Len(ids) |->
                             SlotConsole(t, 311, Some(ids[k]), Undefined)])
           \o ConcatLines([k \in 1..Len(nums) |->
                             SlotConsole(t, 327, NoString, Some(nums[k]))])

(***************************************************************************)
(* The run loop and the capture session (Spec).                            *)
(***************************************************************************)
\* Listing counts a search response carries in the run-loop specification.
RunListingCounts == {0, 1, BatchSize + 1}

\* How the pricing endpoint answers during a run of the run-loop
\* specification: it prices every listing, or omits the price object.
RunBackends == {"all", "noPrice"}

Instances == 1..Len(templateUrls)

captureVars == << attempt, gotos, reqArmed, respArmed, reqCaught, respCaught,
                  net, net2, searchReq, filteredRes, respBody, missed >>
quoteVars == << vehicles, region, allQuotes, batchIdx, returned, quotePayloads, inFlight,
               results >>
\* What the window expansion computed and the run leaves alone.
expandedVars == << templateUrls, backend, searchLocation, searchPayload, now, baseAvailableSlot, templates,
                  templateIdx, consoleOut, clock >>
loopVars == << templateUrls, i, docs, started, delayed, backend, searchLocation,
              searchPayload, now, baseAvailableSlot,
              templates, templateIdx, consoleOut, clock, contexts, pages >>

Init ==
  /\ pc = "loop"
  /\ templateUrls = [k \in 1..NumInstances |-> [docId |-> k, url |-> InstanceUrl(UrlStale)]]
  /\ i = 1
  /\ attempt = 1
  /\ gotos = 0
  /\ reqArmed = FALSE
  /\ respArmed = FALSE
  /\ reqCaught = FALSE
  /\ respCaught = FALSE
  /\ net = "none"
  /\ net2 = "none"
  /\ searchReq = NoRequest
  /\ filteredRes = NoRequest
  /\ respBody = 0
  /\ missed = FALSE
  /\ vehicles = << >>
  /\ region = << >>
  /\ allQuotes = EmptyObject
  /\ batchIdx = 1
  /\ returned = << >>
  /\ quotePayloads = << >>
  /\ inFlight = 0
  /\ results = << >>
  /\ docs = << >>
  /\ errors = {}
  /\ started = {}
  /\ delayed = {}
  /\ outcome = [k \in 1..NumInstances |-> "pending"]
  /\ thrownAt = "none"
  /\ backend \in RunBackends
  /\ searchLocation = Absent
  /\ searchPayload = SearchPayload(Absent, Absent)
  /\ now = 0
  /\ baseAvailableSlot = 0
  /\ templates = << >>
  /\ templateIdx = 1
  /\ consoleOut = << >>
  /\ clock = 0
  /\ contexts = {}
  /\ pages = {}

\* A catch that logs and lets the statement that threw go on.
CaughtResumes(how) ==
  /\ errors' = errors \cup {i}
  /\ thrownAt' = pc
  /\ outcome' = [outcome EXCEPT ![i] = IF @ = "pending" THEN how ELSE @]
  /\ pc' = pc

\* An exception inside the try block (lines 340-366): the catch logs it
\* (line 368) and control reaches the finally block.
Caught(how) ==
  /\ errors' = errors \cup {i}
  /\ thrownAt' = pc
  /\ outcome' = [outcome EXCEPT ![i] = IF @ = "pending" THEN how ELSE @]
  /\ pc' = "finallyDelay"

\* for (let i = 0; i < templateUrls.length; i++) (line 333) and, after the
\* loop, browser.close() (line 378).
LoopTest ==
  /\ pc = "loop"
  /\ IF i <= Len(templateUrls)
     THEN /\ pc' = "newContext"
          /\ started' = started \cup {i}
     ELSE /\ pc' = "browserClose"
          /\ UNCHANGED started
  /\ UNCHANGED << templateUrls, i, docs, delayed, backend, searchLocation, searchPayload,
                  now, baseAvailableSlot,
                  templates, templateIdx, consoleOut, clock, contexts, pages,
                  errors, outcome, thrownAt, captureVars, quoteVars >>

\* await browser.newContext(...) (line 335): outside the try block, so a
\* rejection leaves the loop and the async main function.
NewContext ==
  /\ pc = "newContext"
  /\ \E ok \in BOOLEAN :
       /\ pc' = IF ok THEN "newPage" ELSE "aborted"
       /\ contexts' = IF ok THEN contexts \cup {i} ELSE contexts
  /\ UNCHANGED << expandedVars, i, docs, started, delayed, pages, errors, outcome, thrownAt,
                  captureVars, quoteVars >>

\* await context.newPage() (line 339), outside the try block too; then the
\* call scrapeSearchUrl(page, templateItem.url) with attempt = 1 (line 342).
NewPage ==
  /\ pc = "newPage"
  /\ \E ok \in BOOLEAN :
       /\ pc' = IF ok THEN "scrapeStart" ELSE "aborted"
       /\ pages' = IF ok THEN pages \cup {i} ELSE pages
  /\ attempt' = 1
  /\ gotos' = 0
  /\ reqArmed' = FALSE /\ respArmed' = FALSE
  /\ reqCaught' = FALSE /\ respCaught' = FALSE
  /\ net' = "none" /\ respBody' = 0 /\ missed' = FALSE
  /\ net2' = "none" /\ searchReq' = NoRequest /\ filteredRes' = NoRequest
  /\ vehicles' = << >> /\ allQuotes' = EmptyObject /\ batchIdx' = 1
  /\ region' = << >>
  /\ returned' = << >> /\ results' = << >>
  /\ quotePayloads' = << >> /\ inFlight' = 0
  /\ thrownAt' = "none"
  /\ UNCHANGED << expandedVars, i, docs, started, delayed, contexts, errors, outcome >>

\* Lines 131-132: page.waitForRequest(...) registers the request wait, then
\* page.goto(url, ...) triggers the navigation; both calls are made before
\* the first await.  No response wait is registered here.
ScrapeStart ==
  /\ pc = "scrapeStart"
  /\ reqArmed' = TRUE
  /\ reqCaught' = FALSE
  /\ respArmed' = FALSE
  /\ respCaught' = FALSE
  /\ gotos' = gotos + 1
  /\ net' = "none"
  /\ net2' = "none"
  /\ searchReq' = NoRequest
  /\ filteredRes' = NoRequest
  /\ missed' = FALSE
  /\ pc' = "gotoPending"
  /\ UNCHANGED << attempt, respBody, loopVars, errors, outcome, thrownAt, quoteVars >>

\* The page, once navigated, posts its search request to /api/v2/search.
PageSendsSearchRequest ==
  /\ pc \in {"gotoPending", "awaitRequest", "awaitResponse"}
  /\ net = "none"
  /\ net' = "requested"
  /\ reqCaught' = (reqCaught \/ reqArmed)
  /\ searchReq' = IF reqArmed /\ ~reqCaught THEN Request(attempt, 1) ELSE searchReq
  /\ UNCHANGED << pc, attempt, gotos, reqArmed, respArmed, respCaught, respBody,
                  net2, filteredRes, missed, loopVars, errors, outcome, thrownAt,
                  quoteVars >>

\* The page posts a second search request (a search refined by the page's
\* own scripts): the request wait, resolved by the first, does not see it.
PageSendsSecondSearchRequest ==
  /\ pc \in {"gotoPending", "awaitRequest", "awaitResponse"}
  /\ net # "none"
  /\ net2 = "none"
  /\ net2' = "requested"
  /\ UNCHANGED << pc, attempt, gotos, reqArmed, respArmed, reqCaught, respCaught,
                  net, searchReq, filteredRes, respBody, missed, loopVars, errors,
                  outcome, thrownAt, quoteVars >>

\* What a 200 response to /api/v2/search does when it arrives: the response
\* predicate (line 141) tests the URL and the status only, so the response of
\* any search call resolves a registered wait that is still pending; with no
\* wait registered nobody sees it.
ResponseSeen(req, n) ==
  IF respArmed /\ ~respCaught
  THEN /\ respCaught' = TRUE
       /\ respBody' = n
       /\ filteredRes' = req
       /\ UNCHANGED missed
  ELSE /\ missed' = (missed \/ ~respArmed)
       /\ UNCHANGED << respCaught, respBody, filteredRes >>

\* The 200 response of the search call arrives, carrying n listings.  It
\* resolves the response wait if one is registered; otherwise nobody sees it.
\* Between the resolution of `await searchRequestPromise` and line 141 no
\* network event is dispatched (the continuation runs first), so a response
\* arrives either while page.goto is pending or after line 141.
SearchResponseArrives ==
  /\ pc \in {"gotoPending", "awaitResponse"}
  /\ net = "requested"
  /\ net' = "responded"
  /\ \E n \in RunListingCounts : ResponseSeen(Request(attempt, 1), n)
  /\ UNCHANGED << pc, attempt, gotos, reqArmed, respArmed, reqCaught, net2,
                  searchReq, loopVars, errors, outcome, thrownAt, quoteVars >>

\* The 200 response of the second search call arrives, before or after the
\* response of the first.
SecondSearchResponseArrives ==
  /\ pc \in {"gotoPending", "awaitResponse"}
  /\ net2 = "requested"
  /\ net2' = "responded"
  /\ \E n \in RunListingCounts : ResponseSeen(Request(attempt, 2), n)
  /\ UNCHANGED << pc, attempt, gotos, reqArmed, respArmed, reqCaught, net,
                  searchReq, loopVars, errors, outcome, thrownAt, quoteVars >>

\* The promise of page.waitForRequest (line 131) is awaited only at line 134,
\* after page.goto.  It rejects when its own timeout (the default, 30000)
\* expires and when the page is closed; until line 134 is reached, and for
\* good when page.goto rejects, it has no handler, and a rejection without
\* handler ends the process (Node 18, which the workflow installs).
\* The wait is pending without a handler after page.goto rejected:
OrphanedRequestWait == reqArmed /\ ~reqCaught /\ thrownAt = "gotoPending"

\* The request wait times out while page.goto (timeout 60000) is pending.
RequestWaitTimesOut ==
  /\ pc = "gotoPending"
  /\ reqArmed /\ ~reqCaught
  /\ pc' = "aborted"
  /\ thrownAt' = "waitForRequest"
  /\ UNCHANGED << loopVars, errors, outcome, captureVars, quoteVars >>

\* await page.goto(...) (line 132) resolves at domcontentloaded or rejects
\* (timeout 60000).
GotoSettles ==
  /\ pc = "gotoPending"
  /\ \E ok \in BOOLEAN :
       IF ok
       THEN /\ pc' = "awaitRequest"
            /\ UNCHANGED << errors, outcome, thrownAt >>
       ELSE Caught("failed")
  /\ UNCHANGED << loopVars, captureVars, quoteVars >>

\* await searchRequestPromise (line 134); the payload is parsed and the
\* filter read (lines 135-139); then page.waitForResponse(...) registers the
\* response wait (line 141).  The wait rejects on timeout when no request
\* was seen; JSON.parse or the destructuring may throw.
AwaitRequest ==
  /\ pc = "awaitRequest"
  /\ \E ok \in BOOLEAN :
       IF reqCaught /\ ok
       THEN /\ respArmed' = TRUE
            /\ pc' = "awaitResponse"
            /\ UNCHANGED << errors, outcome, thrownAt >>
       ELSE /\ Caught("failed")
            /\ UNCHANGED respArmed
  /\ UNCHANGED << attempt, gotos, reqArmed, reqCaught, respCaught, net, net2,
                  searchReq, filteredRes, respBody, missed, loopVars, quoteVars >>

\* await page.waitForResponse(...) (line 141) resolves with the response the
\* registered wait saw, or rejects on timeout (60000) when it saw none.
AwaitResponse ==
  /\ pc = "awaitResponse"
  /\ IF respCaught
     THEN /\ pc' = "readBody"
          /\ UNCHANGED << errors, outcome, thrownAt >>
     ELSE Caught("failed")
  /\ UNCHANGED << loopVars, captureVars, quoteVars >>

\* ShouldRetry with the ceiling off by one: the ceiling is tested with <= instead of <.
ShouldRetryOffByOne(n, a) == n = 0 /\ a <= MaxAttempts

\* vehicles.length === 0 && attempt < 3 (line 156).
ShouldRetry(n, a) == n = 0 /\ a < MaxAttempts

\* await filteredRes.text() (line 142), JSON.parse, the region, and the retry
\* decision (lines 145-163).  With listings, or on the last attempt, the
\* quote table is created empty and the listings are chunked.
ReadBody ==
  /\ pc = "readBody"
  /\ \E ok \in BOOLEAN :
       IF ok /\ ~RegionThrows(searchLocation, searchPayload, templateUrls[i].url)
       THEN /\ vehicles' = MkListings(respBody, 0)
            /\ region' = RegionOf(searchLocation, searchPayload, templateUrls[i].url)
            /\ IF ShouldRetry(respBody, attempt)
               THEN /\ pc' = "backoff"
                    /\ UNCHANGED << allQuotes, batchIdx, returned, quotePayloads >>
               ELSE /\ allQuotes' = EmptyObject
                    /\ batchIdx' = 1
                    /\ returned' = << >>
                    /\ quotePayloads' = << >>
                    /\ pc' = IF respBody = 0 THEN "map" ELSE "quotes"
            /\ UNCHANGED << errors, outcome, thrownAt >>
       ELSE /\ Caught("failed")
            /\ UNCHANGED << vehicles, region, allQuotes, batchIdx, returned, quotePayloads >>
  /\ UNCHANGED << loopVars, captureVars, inFlight, results >>

\* await page.waitForTimeout(3000 + Math.random() * 2000), then the
\* recursive call scrapeSearchUrl(page, url, attempt + 1) (lines 158-159).
Backoff ==
  /\ pc = "backoff"
  /\ \E ok \in BOOLEAN :
       IF ok
       THEN /\ attempt' = attempt + 1
            /\ pc' = "scrapeStart"
            /\ UNCHANGED << errors, outcome, thrownAt >>
       ELSE /\ Caught("failed")
            /\ UNCHANGED attempt
  /\ UNCHANGED << gotos, reqArmed, respArmed, reqCaught, respCaught, net, net2,
                  searchReq, filteredRes, respBody, missed, loopVars, quoteVars >>

\* The body of a pricing request (lines 165-169): the filter recovered from
\* searchReq, the ids of the chunk, and the region under both names.
QuotePayload(req, chunk) ==
  [filter |-> req, ids |-> IdsOf(chunk), region |-> region, searchRegion |-> region]

\* The requests of all the chunks still to come issued at once.
QuoteRequestAllAtOnce ==
  /\ pc = "quotes"
  /\ LET chunks == chunkArray(vehicles, BatchSize)
     IN  /\ quotePayloads' =
              quotePayloads \o [k \in 1..(Len(chunks) - batchIdx + 1) |->
                                 QuotePayload(searchReq, chunks[batchIdx + k - 1])]
         /\ inFlight' = inFlight + (Len(chunks) - batchIdx + 1)
  /\ pc' = "quoteWait"
  /\ UNCHANGED << loopVars, captureVars, vehicles, region, allQuotes, batchIdx, returned,
                  results, errors, outcome, thrownAt >>

\* One turn of `for (const chunk of vehicleChunks)` (lines 164-177): the
\* payload is built and page.evaluate posts it to /api/bulk-quotes/v2.
QuoteRequest ==
  /\ pc = "quotes"
  /\ LET chunks == chunkArray(vehicles, BatchSize)
     IN  quotePayloads' = Append(quotePayloads, QuotePayload(searchReq, chunks[batchIdx]))
  /\ inFlight' = inFlight + 1
  /\ pc' = "quoteWait"
  /\ UNCHANGED << loopVars, captureVars, vehicles, region, allQuotes, batchIdx, returned,
                  results, errors, outcome, thrownAt >>

\* The await of line 170 settles: the answer's estimatedQuotes are merged
\* into allQuotes (line 178) and the loop goes on to the next chunk, or the
\* rejection leaves scrapeSearchUrl.
QuoteBatch ==
  /\ pc = "quoteWait"
  /\ inFlight' = inFlight - 1
  /\ LET chunks == chunkArray(vehicles, BatchSize)
     IN  \E ok \in BOOLEAN :
           IF ok
           THEN \E q \in QuoteResponses(backend, chunks[batchIdx], vehicles) :
                  /\ allQuotes' = ObjectAssign(allQuotes, q)
                  /\ returned' = Append(returned, q)
                  /\ batchIdx' = batchIdx + 1
                  /\ pc' = IF batchIdx = Len(chunks) THEN "map" ELSE "quotes"
                  /\ UNCHANGED << errors, outcome, thrownAt >>
           ELSE /\ Caught("failed")
                /\ UNCHANGED << allQuotes, returned, batchIdx >>
  /\ UNCHANGED << loopVars, captureVars, vehicles, region, quotePayloads, results >>

\* const results = vehicles.map(...) and the return (lines 181-192).
MapRecords ==
  /\ pc = "map"
  /\ IF MapperThrows(vehicles, allQuotes)
     THEN /\ Caught("failed")
          /\ UNCHANGED results
     ELSE /\ results' = RecordMapper(vehicles, allQuotes)
          /\ pc' = "returned"
          /\ UNCHANGED << errors, outcome, thrownAt >>
  /\ UNCHANGED << loopVars, captureVars, vehicles, region, allQuotes, batchIdx, returned,
                  quotePayloads, inFlight >>

\* SkipsWrite with the emptiness test dropped.
SkipsWriteNever(recs) == FALSE

\* results.length === 0 (line 344).
SkipsWrite(recs) == Len(recs) = 0

\* Lines 342-347: the result of scrapeSearchUrl is received; an empty record
\* set is logged and skipped, otherwise the document is handed to the sink.
ReturnBranch ==
  /\ pc = "returned"
  /\ outcome' = [outcome EXCEPT ![i] = IF Len(results) = 0 THEN "empty" ELSE "records"]
  /\ pc' = IF SkipsWrite(results) THEN "finallyDelay" ELSE "persist"
  /\ UNCHANGED << loopVars, errors, thrownAt, captureVars, quoteVars >>

\* await firestore.collection(colName).doc().set({...}) (lines 348-359).
Persist ==
  /\ pc = "persist"
  /\ \E ok \in BOOLEAN :
       IF ok
       THEN /\ docs' = Append(docs, [instance |-> i,
                                     templateId |-> templateUrls[i].docId,
                                     executionData |-> results,
                                     startUsedISO |-> searchReq])
            /\ pc' = "finallyDelay"
            /\ UNCHANGED << errors, outcome, thrownAt >>
       ELSE /\ Caught("records")
            /\ UNCHANGED docs
  /\ UNCHANGED << templateUrls, i, started, delayed, backend, searchLocation, searchPayload,
                  now, baseAvailableSlot,
                  templates, templateIdx, consoleOut, clock, contexts, pages,
                  captureVars, quoteVars >>

\* The delay waited for only when the try block ended without an exception.
FinallyDelayUnlessCaught ==
  /\ pc = "finallyDelay"
  /\ \E ok \in BOOLEAN :
       /\ pc' = IF ok \/ i \in errors THEN "closePage" ELSE "aborted"
       /\ delayed' = IF ok /\ i \notin errors THEN delayed \cup {i} ELSE delayed
  /\ UNCHANGED << expandedVars, i, docs, started, contexts, pages, errors, outcome,
                  thrownAt, captureVars, quoteVars >>

\* finally: await page.waitForTimeout(delay) (line 372).  A rejection here,
\* and in the two closes below, is outside every catch.
FinallyDelay ==
  /\ pc = "finallyDelay"
  /\ \E ok \in BOOLEAN :
       /\ pc' = IF ok THEN "closePage" ELSE "aborted"
       /\ delayed' = IF ok THEN delayed \cup {i} ELSE delayed
  /\ UNCHANGED << expandedVars, i, docs, started, contexts, pages, errors, outcome,
                  thrownAt, captureVars, quoteVars >>

\* await page.close() (line 373).  Closing the page rejects a request wait
\* that is still pending; left without a handler, the rejection ends the
\* process.
ClosePage ==
  /\ pc = "closePage"
  /\ IF OrphanedRequestWait
     THEN /\ pc' = "aborted"
          /\ thrownAt' = "waitForRequest"
          /\ pages' = pages \ {i}
     ELSE /\ \E ok \in BOOLEAN :
               /\ pc' = IF ok THEN "closeContext" ELSE "aborted"
               /\ pages' = IF ok THEN pages \ {i} ELSE pages
          /\ UNCHANGED thrownAt
  /\ UNCHANGED << expandedVars, i, docs, started, delayed, contexts, errors, outcome,
                  captureVars, quoteVars >>

\* The loop going on to the next instance with the context left open.
CloseContextLeavesOpen ==
  /\ pc = "closeContext"
  /\ i' = i + 1
  /\ pc' = "loop"
  /\ UNCHANGED << expandedVars, docs, started, delayed, contexts, pages, errors, outcome,
                  thrownAt, captureVars, quoteVars >>

\* await context.close() (line 374), then i++ (line 333).
CloseContext ==
  /\ pc = "closeContext"
  /\ \E ok \in BOOLEAN :
       IF ok
       THEN /\ i' = i + 1
            /\ pc' = "loop"
            /\ contexts' = contexts \ {i}
       ELSE /\ pc' = "aborted"
            /\ UNCHANGED << i, contexts >>
  /\ UNCHANGED << expandedVars, docs, started, delayed, pages, errors, outcome, thrownAt,
                  captureVars, quoteVars >>

\* await browser.close() (line 378).
BrowserClose ==
  /\ pc = "browserClose"
  /\ \E ok \in BOOLEAN : pc' = IF ok THEN "done" ELSE "aborted"
  /\ UNCHANGED << loopVars, errors, outcome, thrownAt, captureVars, quoteVars >>

Next ==
  \/ LoopTest
  \/ NewContext
  \/ NewPage
  \/ ScrapeStart
  \/ PageSendsSearchRequest
  \/ PageSendsSecondSearchRequest
  \/ SearchResponseArrives
  \/ SecondSearchResponseArrives
  \/ RequestWaitTimesOut
  \/ GotoSettles
  \/ AwaitRequest
  \/ AwaitResponse
  \/ ReadBody
  \/ Backoff
  \/ QuoteRequest
  \/ QuoteBatch
  \/ MapRecords
  \/ ReturnBranch
  \/ Persist
  \/ FinallyDelay
  \/ ClosePage
  \/ CloseContext
  \/ BrowserClose

Spec == Init /\ [][Next]_vars

(***************************************************************************)
(* Claims checked under Spec.                                              *)
(***************************************************************************)
HasDoc(j) == \E k \in 1..Len(docs) : docs[k].instance = j

\* The try block of instance j has been left.
Settled(j) == outcome[j] # "pending" /\ ~(j = i /\ pc = "persist")

\* C1: a capture session whose attempts all return zero listings, none
\* failing, navigates exactly 3 times for its window instance, and the
\* attempt counter stays within 1..3 in every reachable state.
C1_RetryExactlyThree ==
  /\ attempt \in 1..3
  /\ gotos <= 3
  /\ gotos \in {attempt - 1, attempt}
  /\ (pc \in {"map", "returned"} /\ Len(vehicles) = 0) => gotos = 3

C1_Witness ==
  /\ pc = "returned"
  /\ Len(vehicles) = 0
  /\ i \notin errors
  /\ gotos = 3
  /\ attempt = 3

\* C2: whatever exception is raised while a window instance is handled
\* (context or page acquisition, capture, pricing, mapping, persistence, the
\* post-instance delay, the cleanup), every later window instance is still
\* processed: the run never ends with an instance that was not started.
C2_EveryInstanceProcessed ==
  pc \in {"done", "aborted"} => started = Instances

\* C3 as stated: once the try block of an instance is left, a document
\* exists for it if and only if capture, aggregation and mapping completed
\* without exception and produced at least one record.
C3_WrittenIffRecords ==
  \A j \in Instances : Settled(j) => (HasDoc(j) <=> outcome[j] = "records")

\* C3, amended: a document exists for an instance if and only if capture,
\* aggregation and mapping completed without exception, produced at least one
\* record and the write to the sink raised nothing; a written document holds
\* a non-empty record set, and no instance has more than one document.
C3_WrittenIffRecordsAndWriteOk ==
  /\ \A j \in Instances :
       HasDoc(j) <=> (Settled(j) /\ outcome[j] = "records" /\ j \notin errors)
  /\ \A k \in 1..Len(docs) : Len(docs[k].executionData) > 0
  /\ \A k, m \in 1..Len(docs) : docs[k].instance = docs[m].instance => k = m

C3_Witness ==
  /\ pc = "done"
  /\ HasDoc(1)
  /\ outcome[1] = "records"
  /\ \E j \in Instances : outcome[j] \in {"empty", "failed"} /\ ~HasDoc(j)

C4_NoResponseUnobserved == ~missed

(***************************************************************************)
(* The run loop under the assumption that every step eventually returns or *)
(* fails (SpecLive).  Every await of the run is bounded by a timeout or     *)
(* settles with its browser or store call, and the thread of control takes *)
(* its next step as soon as the awaited promise settles: a step that is     *)
(* enabled is eventually taken.  The page and the backend, which send the   *)
(* search request and its response, are under no such obligation.           *)
(***************************************************************************)
ProgramStep ==
  \/ LoopTest
  \/ NewContext
  \/ NewPage
  \/ ScrapeStart
  \/ GotoSettles
  \/ AwaitRequest
  \/ AwaitResponse
  \/ ReadBody
  \/ Backoff
  \/ QuoteRequest
  \/ QuoteBatch
  \/ MapRecords
  \/ ReturnBranch
  \/ Persist
  \/ FinallyDelay
  \/ ClosePage
  \/ CloseContext
  \/ BrowserClose

SpecLive == Init /\ [][Next]_vars /\ WF_vars(ProgramStep)

\* The run is over: browser.close() returned, or a rejection left the async
\* main function.
Terminated == pc \in {"done", "aborted"}

\* The loop body is entered for the instances in list order, each once.
StartsInListOrder ==
  [][started' # started =>
       /\ i \notin started
       /\ started = 1..(i - 1)
       /\ started' = started \cup {i}]_vars

\* C21: provided every external step eventually returns or fails, the run
\* eventually terminates with the browser closed, after having started every
\* window instance of the list exactly once, in list order.
C21_TerminatesAfterEveryInstance ==
  /\ StartsInListOrder
  /\ <>(pc = "done" /\ started = Instances)

\* What does hold: the run always ends, one way or the other.
C21_RunEnds == <>Terminated

\* The attempt counter and the navigation count only move on from the
\* backoff of an attempt that parsed zero listings below the ceiling, in an
\* instance for which nothing was thrown.
RetryOnlyAfterEmptyAttempt ==
  [][(attempt' > attempt \/ (gotos' > gotos /\ gotos >= 1)) =>
       /\ Len(vehicles) = 0
       /\ attempt' <= MaxAttempts
       /\ i \notin errors
       /\ thrownAt = "none"
       /\ pc \in {"backoff", "scrapeStart"}]_vars

\* A failure inside scrapeSearchUrl was logged by the catch of the run loop
\* and control is in the finally block (or beyond it); no navigation, wait
\* or pricing request follows it in that instance.
FailureEndsSession ==
  /\ \A j \in Instances : outcome[j] = "failed" => j \in errors
  /\ (i \in Instances /\ outcome[i] = "failed") =>
       pc \in {"finallyDelay", "closePage", "closeContext", "aborted"}

\* The run is not ended by what a capture session left behind.
FailureStaysInItsInstance == pc = "aborted" => thrownAt # "waitForRequest"

\* C23: a retry happens only when an attempt completed and parsed zero
\* listings with attempt < 3; a failure in any attempt is never retried: it
\* ends the capture session at once, reaches the run loop as a failure, and
\* affects no other instance (the run is not ended by it).
C23_FailureNotRetriedAndIsolated ==
  /\ RetryOnlyAfterEmptyAttempt
  /\ []FailureEndsSession
  /\ []FailureStaysInItsInstance

\* What holds of C23: the retry condition and the end of the session.
C23_RetryAndSessionEnd == RetryOnlyAfterEmptyAttempt /\ []FailureEndsSession

\* The pricing request of a batch of the current instance has failed.
QuoteFailed == thrownAt = "quoteWait" /\ i \in Instances /\ outcome[i] = "failed"

C25_ResponseMatchesRequest ==
  respCaught =>
    /\ searchReq # NoRequest
    /\ filteredRes = searchReq

\* Past the retry decision of the attempt whose listings are returned.
PastRetryDecision == pc \in {"quotes", "quoteWait", "map", "returned", "persist"}

\* C26: the filter (age, start, end) carried by every pricing request of a
\* window, and the startUsedISO/endUsedISO handed to the store, are those of
\* the search request caught in the attempt whose listings are returned,
\* the last one, and of no earlier attempt.
C26_FilterOfFinalAttempt ==
  /\ [](PastRetryDecision =>
          /\ attempt = gotos
          /\ searchReq.attempt = attempt
          /\ \A k \in 1..Len(quotePayloads) : quotePayloads[k].filter = searchReq)
  /\ [][docs' # docs =>
          /\ docs'[Len(docs')].startUsedISO = searchReq
          /\ searchReq.attempt = attempt
          /\ \A k \in 1..Len(quotePayloads) : quotePayloads[k].filter = searchReq]_vars

\* After two empty attempts the third returned 21 listings: both pricing
\* requests carried the filter of the third attempt's request, and so does
\* the document written.
C26_Witness ==
  /\ pc = "finallyDelay"
  /\ attempt = MaxAttempts
  /\ Len(quotePayloads) = 2
  /\ quotePayloads[1].filter.attempt = MaxAttempts
  /\ quotePayloads[2].filter.attempt = MaxAttempts
  /\ HasDoc(i)
  /\ docs[Len(docs)].startUsedISO.attempt = MaxAttempts

\* Instance i is being processed: its page exists and the finally block has
\* not yet closed it.
Processing ==
  pc \in {"scrapeStart", "gotoPending", "awaitRequest", "awaitResponse", "readBody",
          "backoff", "quotes", "quoteWait", "map", "returned", "persist",
          "finallyDelay", "closePage"}

\* C29: at most one window instance is being processed at any moment; it
\* runs in a browser context (and page) created for it alone, and whatever
\* its outcome that context and its page are closed before the context of
\* the next instance is created.
C29_OneContextPerInstance ==
  /\ Cardinality(contexts) <= 1
  /\ pages \subseteq contexts
  /\ contexts \subseteq {i}
  /\ Processing => (contexts = {i} /\ pages = {i} /\ i \in started)
  /\ pc \in {"loop", "newContext", "browserClose", "done"} => (contexts = {} /\ pages = {})
  /\ \A j \in started : j < i => (j \notin contexts /\ outcome[j] # "pending")

\* Instance 1 failed and instance 2 came back empty, each in its own
\* context; instance 2's context is the only one open.
C29_Witness ==
  /\ i = 2
  /\ pc = "finallyDelay"
  /\ outcome[1] = "failed"
  /\ outcome[2] = "empty"
  /\ contexts = {2}
  /\ pages = {2}

\* C35: after every window instance, whatever its outcome (records
\* persisted, empty result, or exception), the inter-instance delay is
\* performed before the next instance starts: an instance is started only
\* when the delay of the one before it has been waited for, and every
\* instance the loop has left behind has had its delay.
C35_DelayBetweenInstances ==
  /\ \A j \in started : j > 1 => (j - 1) \in delayed
  /\ \A j \in Instances : j < i => j \in delayed
  /\ \A j \in delayed : j \in started /\ j <= i

\* The second instance has started after the first, whose attempt raised an
\* exception, had its delay.
C35_Witness ==
  /\ 2 \in started
  /\ 1 \in delayed
  /\ 1 \in errors
  /\ outcome[1] = "failed"

\* The second instance has started after the first, which returned no
\* listing and wrote nothing, had its delay.
C35_WitnessEmpty ==
  /\ 2 \in started
  /\ 1 \in delayed
  /\ outcome[1] = "empty"
  /\ docs = << >>

\* An attempt is under way and has not reached its retry decision, or it
\* decided to retry.
BeforeReturningAttempt ==
  pc \in {"scrapeStart", "gotoPending", "awaitRequest", "awaitResponse", "readBody",
          "backoff"}

\* C36: the records returned for a window instance derive only from its
\* last attempt: an attempt followed by a retry issues no pricing request
\* (none has been issued while an attempt is capturing or backing off); the
\* returning attempt issues exactly ceil(N/20) pricing requests for its N
\* listings, all with the filter of its own search request; and N records
\* are returned, one per listing of that attempt in order.
C36_RecordsFromLastAttempt ==
  /\ BeforeReturningAttempt => (quotePayloads = << >> /\ inFlight = 0)
  /\ pc = "returned" =>
       /\ gotos = attempt
       /\ Len(vehicles) = respBody
       /\ Len(quotePayloads) = (Len(vehicles) + BatchSize - 1) \div BatchSize
       /\ \A k \in 1..Len(quotePayloads) : quotePayloads[k].filter.attempt = attempt
       /\ Len(results) = Len(vehicles)
       /\ \A k \in 1..Len(results) : results[k].id = vehicles[k].id

\* The first attempt parsed no listing and was retried; the second parsed
\* 21 listings, issued two pricing requests and returned 21 records.
C36_Witness ==
  /\ pc = "returned"
  /\ attempt = 2
  /\ gotos = 2
  /\ Len(vehicles) = BatchSize + 1
  /\ Len(quotePayloads) = 2
  /\ quotePayloads[1].filter.attempt = 2
  /\ Len(results) = BatchSize + 1

(***************************************************************************)
(* Quote aggregation and record mapping on their own (SpecQuote): the      *)
(* state right after the last attempt's listings were parsed (line 161),   *)
(* for more listing arrays than the run-loop specification draws.          *)
(***************************************************************************)
QuoteListingCounts ==
  { n \in 0..(MaxChunks * BatchSize + 1) : n % BatchSize \in {0, 1, BatchSize - 1} }

\* 0: every listing has its own id; 7: ids repeat every 7 listings.
IdPeriods == {0, 7}

InitQuote ==
  /\ templateUrls = << [docId |-> 1, url |-> InstanceUrl(UrlStale)] >>
  /\ i = 1
  /\ \E n \in QuoteListingCounts \cup {BigListingCount}, p \in IdPeriods :
       /\ vehicles = MkListings(n, p)
       /\ respBody = n
       /\ attempt = IF n = 0 THEN MaxAttempts ELSE 1
       /\ gotos = IF n = 0 THEN MaxAttempts ELSE 1
       /\ pc = IF n = 0 THEN "map" ELSE "quotes"
       /\ backend \in IF n = BigListingCount THEN BackendKinds ELSE {"any"}
  /\ searchLocation = Absent
  /\ searchPayload = SearchPayload(Absent, Absent)
  /\ region = RegionOf(searchLocation, searchPayload, templateUrls[1].url)
  /\ reqArmed = TRUE
  /\ respArmed = TRUE
  /\ reqCaught = TRUE
  /\ respCaught = TRUE
  /\ net = "responded"
  /\ net2 = "none"
  /\ searchReq = Request(attempt, 1)
  /\ filteredRes = Request(attempt, 1)
  /\ missed = FALSE
  /\ allQuotes = EmptyObject
  /\ batchIdx = 1
  /\ returned = << >>
  /\ quotePayloads = << >>
  /\ inFlight = 0
  /\ results = << >>
  /\ docs = << >>
  /\ errors = {}
  /\ started = {1}
  /\ delayed = {}
  /\ outcome = << "pending" >>
  /\ thrownAt = "none"
  /\ now = 0
  /\ baseAvailableSlot = 0
  /\ templates = << >>
  /\ templateIdx = 1
  /\ consoleOut = << >>
  /\ clock = 0
  /\ contexts = {1}
  /\ pages = {1}

NextQuote ==
  \/ QuoteRequest
  \/ QuoteBatch
  \/ MapRecords
  \/ ReturnBranch

SpecQuote == InitQuote /\ [][NextQuote]_vars

(***************************************************************************)
(* Claims checked under SpecQuote.                                         *)
(***************************************************************************)
RECURSIVE Concat(_)
Concat(seqs) == IF seqs = << >> THEN << >> ELSE Head(seqs) \o Concat(Tail(seqs))

ReturnedIds == UNION { DOMAIN returned[k] : k \in 1..Len(returned) }

\* C8: whatever the listing count, once all batches of a window have been
\* processed the key set of the merged quote table is exactly the union of
\* the ids present in the quote maps the batches returned (and so it is
\* after each batch, for the batches processed so far).
C8_MergedKeysAreReturnedIds ==
  /\ DOMAIN allQuotes = ReturnedIds
  /\ pc \in {"map", "returned"} =>
       Len(returned) = Len(chunkArray(vehicles, BatchSize))

C8_Witness ==
  /\ pc = "map"
  /\ Len(vehicles) = 200
  /\ Len(returned) = 10
  /\ DOMAIN allQuotes = IdsOf(vehicles)
  /\ Cardinality(DOMAIN allQuotes) = 200

\* C9: chunkArray(listings, 20) neither drops nor duplicates a listing: the
\* batches, concatenated in order, are the listing array; there are
\* ceil(N/20) of them; all but the last hold 20 listings and the last holds
\* between 1 and 20.
C9_ChunksPartitionListings ==
  LET ch == chunkArray(vehicles, BatchSize)
      n == Len(vehicles)
  IN  /\ Concat(ch) = vehicles
      /\ Len(ch) = (n + 19) \div 20
      /\ \A k \in 1..Len(ch) :
           /\ k < Len(ch) => Len(ch[k]) = 20
           /\ k = Len(ch) => Len(ch[k]) \in 1..20 /\ Len(ch[k]) = n - 20 * (k - 1)

C9_Witness ==
  /\ pc = "map"
  /\ Len(vehicles) = 41
  /\ batchIdx = 4
  /\ Len(chunkArray(vehicles, BatchSize)[3]) = 1

\* The merged table holds a numeric total-trip amount for this id.
HasNumericAmount(quotes, id) ==
  /\ id \in DOMAIN quotes
  /\ quotes[id].totalTripPrice = "object"
  /\ quotes[id].amount.tag = "number"

\* C10: for every listing of the final attempt the mapper sets totalQuoted to
\* the rounded total-trip amount when the merged table holds a numeric amount
\* for the listing's id and to null otherwise, and the mapping raises no
\* error.
C10_TotalQuotedRoundedOrNull ==
  /\ thrownAt # "map"
  /\ pc = "returned" =>
       \A k \in 1..Len(vehicles) :
         results[k].totalQuoted =
           IF HasNumericAmount(allQuotes, vehicles[k].id)
           THEN JsNum(MathRoundTenths(allQuotes[vehicles[k].id].amount.val))
           ELSE JsNull

\* C11: the mapper outputs exactly one record per listing, in the order of
\* the listing array; each record's position is the 1-based index of the
\* first listing with its id, a value fixed by the listing array alone
\* (whatever the batches were and returned), and it is the record's own
\* index when the ids are distinct.
C11_OneRecordPerListingWithRank ==
  pc = "returned" =>
    /\ Len(results) = Len(vehicles)
    /\ \A k \in 1..Len(vehicles) :
         /\ results[k].id = vehicles[k].id
         /\ results[k].position \in 1..k
         /\ vehicles[results[k].position].id = vehicles[k].id
         /\ \A m \in 1..(results[k].position - 1) : vehicles[m].id # vehicles[k].id
         /\ Cardinality(IdsOf(vehicles)) = Len(vehicles) => results[k].position = k

\* 41 listings in three batches whose ids repeat after 7: record 8 has
\* position 1; and (in another state) 41 listings with distinct ids.
C11_Witness ==
  /\ pc = "returned"
  /\ Len(results) = 41
  /\ Len(returned) = 3
  /\ results[8].position = 1
  /\ results[41].position = 6

\* C30: within one window the pricing requests are issued one at a time in
\* batch order: at most one is in flight in every reachable state, the k-th
\* request is the one for the k-th batch, and a request is issued only when
\* every earlier one has been answered and its answer merged.
C30_OnePricingRequestAtATime ==
  /\ [](/\ inFlight \in {0, 1}
        /\ inFlight = 1 <=> pc = "quoteWait"
        /\ Len(quotePayloads) <= Len(chunkArray(vehicles, BatchSize))
        /\ \A k \in 1..Len(quotePayloads) :
             quotePayloads[k].ids = IdsOf(chunkArray(vehicles, BatchSize)[k])
        /\ thrownAt # "quoteWait" => Len(quotePayloads) = Len(returned) + inFlight)
  /\ [][Len(quotePayloads') > Len(quotePayloads) =>
          /\ inFlight = 0
          /\ Len(quotePayloads') = Len(quotePayloads) + 1
          /\ Len(returned) = Len(quotePayloads)
          /\ DOMAIN allQuotes = ReturnedIds]_vars

\* 41 listings: the third request is in flight after the first two were
\* answered and merged.
C30_Witness ==
  /\ pc = "quoteWait"
  /\ Len(vehicles) = 2 * BatchSize + 1
  /\ Len(quotePayloads) = 3
  /\ Len(returned) = 2
  /\ inFlight = 1
  /\ quotePayloads[3].ids = {vehicles[2 * BatchSize + 1].id}

\* The quote maps of a sequence of answers merged in their order.
RECURSIVE MergeAll(_)
MergeAll(maps) ==
  IF maps = << >> THEN EmptyObject
  ELSE ObjectAssign(MergeAll(SubSeq(maps, 1, Len(maps) - 1)), maps[Len(maps)])

Reverse(seq) == [k \in 1..Len(seq) |-> seq[Len(seq) + 1 - k]]

\* Every answer holds quotes for ids of its own request only.
AnswersForRequestedIds ==
  \A k \in 1..Len(returned) : DOMAIN returned[k] \subseteq quotePayloads[k].ids

\* C31: for every listing array the batches are disjoint in listing ids (no
\* id is in the per-listing map of two pricing requests), so that, the
\* answers holding quotes for the requested ids, the merged quote table is
\* the same whatever the order in which the answers are merged.
C31_BatchesDisjointInIds ==
  /\ \A j \in 1..Len(quotePayloads) : \A k \in 1..Len(quotePayloads) :
       j # k => quotePayloads[j].ids \cap quotePayloads[k].ids = {}
  /\ (pc = "map" /\ AnswersForRequestedIds) =>
       (allQuotes = MergeAll(returned) /\ allQuotes = MergeAll(Reverse(returned)))

\* The same for listing arrays whose ids are distinct.
C31_DisjointWhenIdsDistinct ==
  Cardinality(IdsOf(vehicles)) = Len(vehicles) =>
    /\ \A j \in 1..Len(quotePayloads) : \A k \in 1..Len(quotePayloads) :
         j # k => quotePayloads[j].ids \cap quotePayloads[k].ids = {}
    /\ (pc = "map" /\ AnswersForRequestedIds) =>
         (allQuotes = MergeAll(returned) /\ allQuotes = MergeAll(Reverse(returned)))

\* The merged table has an entry for this id that carries no total-trip
\* price: the price object is absent, or its amount is null.
EntryWithoutPrice(quotes, id) ==
  /\ id \in DOMAIN quotes
  /\ (quotes[id].totalTripPrice = "undefined" \/ quotes[id].amount.tag = "null")

\* C28: when the merged quote table has an entry for a listing's id that
\* carries no total-trip price (the price object or its amount is absent or
\* null) and every pricing request was answered, the mapper raises nothing,
\* the window's records are produced (one per listing) and that listing's
\* totalQuoted is null.
C28_EntryWithoutPriceMapsToNull ==
  ( /\ \E k \in 1..Len(vehicles) : EntryWithoutPrice(allQuotes, vehicles[k].id)
    /\ thrownAt # "quoteWait" ) =>
    /\ pc = "map" => ~MapperThrows(vehicles, allQuotes)
    /\ pc \notin {"quotes", "quoteWait", "map"} =>
         /\ pc = "returned"
         /\ Len(results) = Len(vehicles)
         /\ \A k \in 1..Len(vehicles) :
              EntryWithoutPrice(allQuotes, vehicles[k].id) =>
                results[k].totalQuoted = JsNull

\* What holds of C28: an entry whose price object is there with a null
\* amount maps to null without error.
C28_NullAmountMapsToNull ==
  pc = "returned" =>
    \A k \in 1..Len(vehicles) :
      (vehicles[k].id \in DOMAIN allQuotes /\ allQuotes[vehicles[k].id] = NullAmount) =>
        results[k].totalQuoted = JsNull

(***************************************************************************)
(* The region of a window on its own (SpecRegion): the state right after   *)
(* the search response was caught (line 141), for the values the response, *)
(* the request and the URL may carry.  page.goto (line 132) rejects a URL  *)
(* that is not absolute, so the URL of such a state is parseable.          *)
(***************************************************************************)
\* searchLocation?.region: absent, '' or a code.
LocationRegions == { Absent, Some(<< >>), Some(<< "U", "S" >>) }
\* searchRegion and region of the request's body.
EchoedSearchRegions == { Absent, Some(<< >>), Some(<< "C", "A" >>) }
EchoedRegions == { Absent, Some(<< "T", "X" >>) }
\* Stored URLs: without a region, with region=NY, with region=&region=NY.
RegionStoredUrls == { UrlBare, UrlStale, UrlEmptyValues }
RegionListingCounts == { 0, 1, (MaxChunks - 1) * BatchSize + 1 }

InitRegion ==
  /\ \E u \in RegionStoredUrls :
       templateUrls = << [docId |-> 1, url |-> InstanceUrl(u)] >>
  /\ i = 1
  /\ \E n \in RegionListingCounts :
       /\ respBody = n
       /\ attempt = IF n = 0 THEN MaxAttempts ELSE 1
       /\ gotos = IF n = 0 THEN MaxAttempts ELSE 1
  /\ pc = "readBody"
  /\ searchLocation \in LocationRegions
  /\ searchPayload \in { SearchPayload(a, b) : a \in EchoedSearchRegions, b \in EchoedRegions }
  /\ backend = "all"
  /\ vehicles = << >>
  /\ region = << >>
  /\ reqArmed = TRUE
  /\ respArmed = TRUE
  /\ reqCaught = TRUE
  /\ respCaught = TRUE
  /\ net = "responded"
  /\ net2 = "none"
  /\ searchReq = Request(attempt, 1)
  /\ filteredRes = Request(attempt, 1)
  /\ missed = FALSE
  /\ allQuotes = EmptyObject
  /\ batchIdx = 1
  /\ returned = << >>
  /\ quotePayloads = << >>
  /\ inFlight = 0
  /\ results = << >>
  /\ docs = << >>
  /\ errors = {}
  /\ started = {1}
  /\ delayed = {}
  /\ outcome = << "pending" >>
  /\ thrownAt = "none"
  /\ now = 0
  /\ baseAvailableSlot = 0
  /\ templates = << >>
  /\ templateIdx = 1
  /\ consoleOut = << >>
  /\ clock = 0
  /\ contexts = {1}
  /\ pages = {1}

NextRegion ==
  \/ ReadBody
  \/ QuoteRequest
  \/ QuoteBatch
  \/ MapRecords
  \/ ReturnBranch

SpecRegion == InitRegion /\ [][NextRegion]_vars

\* The region has been determined and the attempt goes on to return.
RegionDetermined == pc \in {"quotes", "quoteWait", "map", "returned"}

\* The `region` parameter of the navigated URL.
UrlRegion == ParamsGet(SearchParams(templateUrls[i].url), << "region" >>)

\* The first non-empty of the given values in their order, else ''.
RECURSIVE FirstAvailable(_)
FirstAvailable(values) ==
  IF values = << >> THEN << >>
  ELSE IF Head(values).def /\ Head(values).v # << >> THEN Head(values).v
  ELSE FirstAvailable(Tail(values))

\* Determining the region raises nothing, and every pricing request carries
\* the determined value under both names.
RegionNeverFailsAndIsSentTwice ==
  /\ pc = "readBody" =>
       ~RegionThrows(searchLocation, searchPayload, templateUrls[i].url)
  /\ \A k \in 1..Len(quotePayloads) :
       /\ quotePayloads[k].region = region
       /\ quotePayloads[k].searchRegion = region

\* C32: the region of a window is the first available of the response's
\* searchLocation.region, the search request's searchRegion field and the
\* `region` parameter of the navigated URL, else the empty string; a
\* missing region never fails the window, and every pricing request carries
\* the value as both region and searchRegion.
C32_RegionPrecedence ==
  /\ RegionDetermined =>
       region = FirstAvailable(<< searchLocation, searchPayload.searchRegion, UrlRegion >>)
  /\ RegionNeverFailsAndIsSentTwice

\* What holds: between the response's region and the URL's parameter comes
\* the request's searchRegion field or, when that field is null or absent,
\* the request's region field.
C32_RegionPrecedenceWithRequestRegion ==
  /\ RegionDetermined =>
       region = FirstAvailable(<< searchLocation,
                                  IF searchPayload.searchRegion.def
                                  THEN searchPayload.searchRegion
                                  ELSE searchPayload.region,
                                  UrlRegion >>)
  /\ RegionNeverFailsAndIsSentTwice

\* Two pricing requests were sent with the region of the request's region
\* field, the response carrying none and the URL carrying another.
C32_Witness ==
  /\ pc = "returned"
  /\ Len(quotePayloads) = 2
  /\ Falsy(searchLocation)
  /\ ~searchPayload.searchRegion.def
  /\ region = << "T", "X" >>
  /\ UrlRegion = Some(<< "N", "Y" >>)
  /\ quotePayloads[2].searchRegion = << "T", "X" >>

\* No source carries a region: the window goes on with the empty string.
C32_WitnessEmpty ==
  /\ pc = "returned"
  /\ Len(results) = 1
  /\ region = << >>
  /\ Falsy(searchLocation)
  /\ Falsy(searchPayload.searchRegion)
  /\ Falsy(searchPayload.region)
  /\ Falsy(UrlRegion)
  /\ quotePayloads[1].region = << >>

(***************************************************************************)
(* Window expansion at run start (SpecWindow): lines 223-331.              *)
(***************************************************************************)
\* The time value of a local wall-clock time of 2026 under standard time
\* (UTC-5); day 0 is January 1st.
StandardTime(day, hh, mm, ss) == day * 86400 + (hh + 5) * 3600 + mm * 60 + ss

\* Values of the clock at run start, which `new Date()` yields at line 223: an ordinary day on and off the
\* half hour, with and without seconds; the days before and of the change
\* to daylight time (March 8th); the night of the change back (November
\* 1st, 01:15 EDT and 01:10 EST); the end of the year.
NowChoices ==
  { StandardTime(14, 10, 0, 0), StandardTime(14, 10, 0, 1),
    StandardTime(14, 10, 29, 59), StandardTime(14, 10, 30, 0),
    StandardTime(14, 8, 45, 30),
    StandardTime(64, 10, 5, 0), StandardTime(63, 0, 45, 0),
    StandardTime(66, 0, 15, 0),
    304 * 86400 + 5 * 3600 + 15 * 60, 304 * 86400 + 6 * 3600 + 10 * 60,
    StandardTime(363, 23, 10, 0) }

\* One element pushed at lines 234-243 (its id is given when it is read);
\* the stored `slots` field is kept beside what is parsed from it.
Template(url, slotId, slots, slot, offsetHours, durationHours) ==
  [id |-> 0, url |-> url, slotId |-> slotId, slots |-> slots,
   slotsIds |-> parseSlotsField(slots),
   slot |-> slot, offsetHours |-> offsetHours, durationHours |-> durationHours]

\* The active templates of the store, in its order: a named slot; a list with an
\* unknown name; slots with fractional, negative and short values; legacy
\* numbers; no slot at all; only the numeric `slot` field; overrides, valid
\* and out of range; a name beside numbers; an invalid URL; a list mixing
\* names and numbers (with a duration of half an hour); an empty slotId; and `slots` given as the string
\* "A,B", as a string with blanks, an empty piece and an unknown name, as a
\* string of numbers, as one integer, as a fraction and as the empty string.
TemplateDocs ==
  << Template(UrlBare, NoString, SlotsArray(<< SlotName("A") >>), Undefined, Undefined, Undefined),
    Template(UrlStale, NoString, SlotsArray(<< SlotName("A"), SlotName("B") >>), Undefined,
             Undefined, Undefined),
    Template(UrlDuplicates, Some("Q"), SlotsAbsent, Undefined, Undefined, Undefined),
    Template(UrlEmptyValues, Some("N"), SlotsAbsent, Undefined, Undefined, Undefined),
    Template(UrlStale, NoString, SlotsArray(<< SlotNumber(1), SlotNumber(2) >>), Undefined,
             Undefined, Undefined),
    Template(UrlStale, NoString, SlotsAbsent, Undefined, Undefined, Undefined),
    Template(UrlBare, NoString, SlotsAbsent, Some(3), Undefined, Undefined),
    Template(UrlDuplicates, Some("A"), SlotsAbsent, Undefined, Some(Hours(25)),
             Some(Hours(1))),
    Template(UrlBare, Some("A"), SlotsArray(<< SlotNumber(1) >>), Undefined,
             Some(0 - Hours(1)), Some(0)),
    Template(UrlInvalid, Some("A"), SlotsAbsent, Undefined, Undefined, Undefined),
    Template(UrlEmptyValues, NoString, SlotsArray(<< SlotName("Q"), SlotNumber(7) >>),
             Undefined, Some(0), Some(60)),
    Template(UrlBare, Some(""), SlotsAbsent, Undefined, Undefined, Undefined),
    Template(UrlBare, NoString, SlotsString(<< "A", ",", "B" >>), Undefined,
             Undefined, Undefined),
    Template(UrlBare, NoString, SlotsString(<< " ", "Q", " ", ",", ",", "Z", "9" >>),
             Undefined, Undefined, Undefined),
    Template(UrlBare, NoString, SlotsString(<< "1", "2", ",", " ", "0", "7" >>),
             Undefined, Undefined, Some(Hours(24))),
    Template(UrlBare, NoString, SlotsInteger(3), Undefined, Undefined, Undefined),
    Template(UrlBare, Some("A"), SlotsFraction, Undefined, Undefined, Undefined),
    Template(UrlStale, NoString, SlotsString(<< >>), Undefined, Undefined, Undefined) >>

TemplateChoices == { TemplateDocs[k] : k \in 1..Len(TemplateDocs) }

\* What the query of line 230 may return: at most MaxTemplates of the
\* documents, each once, in the order of the store.
TemplateLists ==
  UNION { { [k \in 1..n |-> TemplateDocs[f[k]]] :
              f \in { g \in [1..n -> 1..Len(TemplateDocs)] :
                        \A j \in 1..n : \A k \in 1..n : j < k => g[j] < g[k] } } :
          n \in 0..MaxTemplates }

windowVars == << now, baseAvailableSlot, templates, templateIdx, templateUrls,
                consoleOut, clock >>
runVars == << i, docs, started, delayed, backend, searchLocation, searchPayload, errors, outcome, thrownAt,
              captureVars, quoteVars, contexts, pages >>

InitWindow ==
  /\ pc = "takeNow"
  /\ templateUrls = << >>
  /\ i = 1
  /\ attempt = 1
  /\ gotos = 0
  /\ reqArmed = FALSE
  /\ respArmed = FALSE
  /\ reqCaught = FALSE
  /\ respCaught = FALSE
  /\ net = "none"
  /\ net2 = "none"
  /\ searchReq = NoRequest
  /\ filteredRes = NoRequest
  /\ respBody = 0
  /\ missed = FALSE
  /\ vehicles = << >>
  /\ region = << >>
  /\ allQuotes = EmptyObject
  /\ batchIdx = 1
  /\ returned = << >>
  /\ quotePayloads = << >>
  /\ inFlight = 0
  /\ results = << >>
  /\ docs = << >>
  /\ errors = {}
  /\ started = {}
  /\ delayed = {}
  /\ outcome = << >>
  /\ thrownAt = "none"
  /\ backend = "any"
  /\ searchLocation = Absent
  /\ searchPayload = SearchPayload(Absent, Absent)
  /\ now = 0
  /\ baseAvailableSlot = 0
  /\ templates = << >>
  /\ templateIdx = 1
  /\ consoleOut = << >>
  /\ clock \in NowChoices
  /\ contexts = {}
  /\ pages = {}

\* Lines 223-225: the clock is read once.
TakeNow ==
  /\ pc = "takeNow"
  /\ now' = clock
  /\ baseAvailableSlot' =
       roundDownToSlot(addMinutes(clock, MIN_LEAD_MINUTES), SLOT_GRANULARITY_MINUTES)
  /\ pc' = "readTemplates"
  /\ UNCHANGED << templates, templateIdx, templateUrls, consoleOut, clock, runVars >>

\* Time passes while the store is queried and the templates are expanded:
\* the clock moves on by 47 minutes, at most MaxTicks times.
ClockTick ==
  /\ pc \in {"readTemplates", "expand"}
  /\ clock < now + MaxTicks * (47 * 60)
  /\ clock' = clock + 47 * 60
  /\ UNCHANGED << pc, now, baseAvailableSlot, templates, templateIdx, templateUrls,
                  consoleOut, runVars >>

\* Lines 229-252: the active templates are read; without any the browser is
\* closed and the process exits.
ReadTemplates ==
  /\ pc = "readTemplates"
  /\ \E ts \in TemplateLists :
       /\ templates' = [k \in 1..Len(ts) |-> [ts[k] EXCEPT !.id = k]]
       /\ pc' = IF Len(ts) = 0 THEN "exited" ELSE "expand"
  /\ UNCHANGED << now, baseAvailableSlot, templateIdx, templateUrls, consoleOut,
                  clock, runVars >>

\* ExpandTemplate with the window base taken from the clock at each turn.
ExpandTemplateReadingClock ==
  /\ pc = "expand"
  /\ templateUrls' =
       templateUrls \o ExpandOne(templates[templateIdx],
                    roundDownToSlot(addMinutes(clock, MIN_LEAD_MINUTES),
                                    SLOT_GRANULARITY_MINUTES))
  /\ consoleOut' =
       consoleOut \o ExpandConsole(templates[templateIdx], baseAvailableSlot)
  /\ templateIdx' = templateIdx + 1
  /\ pc' = IF templateIdx = Len(templates) THEN "loop" ELSE "expand"
  /\ UNCHANGED << now, baseAvailableSlot, templates, clock, runVars >>

\* One iteration of `for (const t of templates)` (lines 267-331); after the
\* last one the run loop starts.
ExpandTemplate ==
  /\ pc = "expand"
  /\ templateUrls' =
       templateUrls \o ExpandOne(templates[templateIdx], baseAvailableSlot)
  /\ consoleOut' =
       consoleOut \o ExpandConsole(templates[templateIdx], baseAvailableSlot)
  /\ templateIdx' = templateIdx + 1
  /\ pc' = IF templateIdx = Len(templates) THEN "loop" ELSE "expand"
  /\ UNCHANGED << now, baseAvailableSlot, templates, clock, runVars >>

NextWindow ==
  \/ TakeNow
  \/ ClockTick
  \/ ReadTemplates
  \/ ExpandTemplate

SpecWindow == InitWindow /\ [][NextWindow]_vars

(***************************************************************************)
(* Claims checked under SpecWindow.                                        *)
(***************************************************************************)
\* The window instances computed from a slot, by position in templateUrls.
SlotDerived == { k \in 1..Len(templateUrls) : ~templateUrls[k].raw }

C6_EndMinusStartIsDuration ==
  \A k \in SlotDerived :
    templateUrls[k].end - templateUrls[k].start =
      60 * MinutesOf(templateUrls[k].duration.v)

\* Number of pairs named name, and the value of the first of them.
Count(params, name) ==
  Cardinality({ k \in 1..Len(params) : params[k].k = name })
ValueOf(params, name) ==
  params[IndexOf([k \in 1..Len(params) |-> params[k].k], name)].v

\* The formatted values a window's parameters are expected to carry:
\* MM/DD/YYYY and HH:MM in local time, two digits each.
TwoDigits(n) == << DigitChars[(n \div 10) + 1], DigitChars[(n % 10) + 1] >>
ExpectedDate(d) ==
  TwoDigits(getMonth(d) + 1) \o << "/" >> \o TwoDigits(getDate(d)) \o << "/" >>
    \o << "2", "0", "2", DigitChars[(getFullYear(d) - 2020) + 1] >>
ExpectedTime(d) == TwoDigits(getHours(d)) \o << ":" >> \o TwoDigits(getMinutes(d))

\* The list holds exactly one of each window parameter, with the formatted
\* values of start and end.
HasWindowParams(params, start, end) ==
  /\ Count(params, << "startDate" >>) = 1
  /\ Count(params, << "startTime" >>) = 1
  /\ Count(params, << "endDate" >>) = 1
  /\ Count(params, << "endTime" >>) = 1
  /\ ValueOf(params, << "startDate" >>) = ExpectedDate(start)
  /\ ValueOf(params, << "startTime" >>) = ExpectedTime(start)
  /\ ValueOf(params, << "endDate" >>) = ExpectedDate(end)
  /\ ValueOf(params, << "endTime" >>) = ExpectedTime(end)

\* The slot-derived instances whose template URL parses.
ParseableSlotDerived ==
  { k \in SlotDerived : Parseable(templates[templateUrls[k].docId].url) }

\* C7 as stated: for every parseable template URL and every window (s, e),
\* strip(inject(strip(url), s, e)) holds exactly one startDate, startTime,
\* endDate and endTime, each the formatted value of s or e.
C7_StripInjectStripHasWindowParams ==
  \A k \in ParseableSlotDerived :
    HasWindowParams(SearchParams(cleanUrlRemoveDateParams(templateUrls[k].url)),
                    templateUrls[k].start, templateUrls[k].end)

\* C7: for every parseable template URL and every window (s, e),
\* inject(strip(url), s, e) holds exactly one startDate, startTime, endDate
\* and endTime, each the formatted value of s or e; stripping it again
\* removes them and gives strip(url) back.
C7_InjectStripHasWindowParams ==
  \A k \in ParseableSlotDerived :
    /\ HasWindowParams(SearchParams(templateUrls[k].url),
                       templateUrls[k].start, templateUrls[k].end)
    /\ cleanUrlRemoveDateParams(templateUrls[k].url) =
         cleanUrlRemoveDateParams(templates[templateUrls[k].docId].url)

\* A template URL with two stale end times and a monthly start date has
\* been expanded into a window whose month, day and hour have one digit.
C7_Witness ==
  /\ pc = "loop"
  /\ \E k \in ParseableSlotDerived :
       /\ Count(SearchParams(templates[templateUrls[k].docId].url),
                << "endTime" >>) = 2
       /\ getMonth(templateUrls[k].start) + 1 < 10
       /\ getDate(templateUrls[k].end) < 10
       /\ getHours(templateUrls[k].start) < 10
       /\ Len(SearchParams(templateUrls[k].url)) = 5

\* The templates whose turn of the expansion loop is over, and the window
\* instances a template has been given, in order.
Expanded == { k \in 1..Len(templates) : k < templateIdx }
InstancesOf(id) == SelectSeq(templateUrls, LAMBDA x : x.docId = id)

\* The template has neither slotId nor override.
Plain(t) == ~t.slotId.def /\ ~t.offsetHours.def /\ ~t.durationHours.def

\* C12: with slot A defined as offsetHours 1, durationHours 72 and no slot
\* B in the table, a template whose slot spec is the string "A,B" expands to
\* exactly two window instances, in that order: the first for A with offset
\* 1 and duration 72, the second for B with offset 0 and the default
\* duration 72.
C12_NamedListWithUnresolvedId ==
  \A k \in Expanded :
    ( /\ templates[k].slots = SlotsString(<< "A", ",", "B" >>)
      /\ Plain(templates[k])
      /\ slotOptionsMap["A"] = [offsetHours |-> Hours(1), durationHours |-> Hours(72)]
      /\ "B" \notin DOMAIN slotOptionsMap )
    => LET inst == InstancesOf(k)
       IN  /\ Len(inst) = 2
           /\ ~inst[1].raw /\ ~inst[2].raw
           /\ inst[1].slotId = Some("A")
           /\ inst[1].offset = Some(Hours(1))
           /\ inst[1].duration = Some(Hours(72))
           /\ inst[2].slotId = Some("B")
           /\ inst[2].offset = Some(0)
           /\ inst[2].duration = Some(Hours(SLOT_DURATION_HOURS))
           /\ inst[2].end > inst[2].start

\* The expansion is over and one of its templates had the slot spec "A,B".
C12_Witness ==
  /\ pc = "loop"
  /\ \E k \in Expanded :
       /\ templates[k].slots = SlotsString(<< "A", ",", "B" >>)
       /\ Plain(templates[k])
       /\ Len(InstancesOf(k)) = 2

\* C13: whenever a template names a slot identifier that is absent from the
\* slot lookup table, the expansion writes a warning for that identifier.
C13_WarningForUnresolvedId ==
  \A k \in 1..Len(templateUrls) :
    ( /\ templateUrls[k].slotId.def
      /\ templateUrls[k].slotId.v \notin DOMAIN slotOptionsMap )
    => \E n \in 1..Len(consoleOut) :
         /\ consoleOut[n].level = "warn"
         /\ consoleOut[n].docId = templateUrls[k].docId
         /\ consoleOut[n].slotId = templateUrls[k].slotId

\* C14: a template with no slot information at all (no slots, no slotId, no
\* slot) expands to exactly one window instance: it is flagged raw, its URL
\* is the template's URL as stored, and it has no slot, offset, duration or
\* window.
C14_RawTemplateKeepsItsUrl ==
  \A k \in Expanded :
    ( /\ templates[k].slots = SlotsAbsent
      /\ ~templates[k].slotId.def
      /\ ~templates[k].slot.def )
    => LET inst == InstancesOf(k)
       IN  /\ Len(inst) = 1
           /\ inst[1].raw
           /\ inst[1].url = templates[k].url
           /\ ~inst[1].offset.def /\ ~inst[1].duration.def
           /\ ~inst[1].slotId.def /\ ~inst[1].slotLegacy.def
           /\ inst[1].start = 0 /\ inst[1].end = 0

\* A slot-less template whose URL carries a stale start date and an empty
\* start time has been expanded.
C14_Witness ==
  /\ pc = "loop"
  /\ \E k \in Expanded :
       /\ templates[k].slots = SlotsAbsent
       /\ ~templates[k].slotId.def /\ ~templates[k].slot.def
       /\ Count(SearchParams(templates[k].url), << "startDate" >>) = 1
       /\ cleanUrlRemoveDateParams(templates[k].url) # templates[k].url
       /\ Len(InstancesOf(k)) = 1

\* The legacy integers a stored `slots` field stands for: the integer
\* itself, the numbers of a list holding only numbers, the numbers written
\* in the string "12, 07"; none otherwise.
ExpectedLegacy(slots) ==
  CASE slots.kind = "integer" -> << slots.num >>
    [] slots.kind = "array" /\ \A j \in 1..Len(slots.arr) : slots.arr[j].t = "number"
         -> [j \in 1..Len(slots.arr) |-> slots.arr[j].n]
    [] slots.kind = "string" /\ slots.str = << "1", "2", ",", " ", "0", "7" >>
         -> << 12, 7 >>
    [] OTHER -> << >>

\* The instances a template has been given for legacy integers.
LegacyInstancesOf(id) ==
  SelectSeq(templateUrls, LAMBDA x : x.docId = id /\ x.slotLegacy.def)

\* C15: a template whose `slots` field is an integer, a string of
\* comma-separated numbers or a list of integers expands to exactly one
\* window instance per integer, in order, each with the offset of the legacy
\* table (the table is empty, so 0) and the default duration, unless the
\* template carries its own offsetHours or durationHours; without a slotId
\* these are all the instances of the template.
C15_OneInstancePerLegacyInteger ==
  \A k \in Expanded :
    LET t == templates[k]
        nums == ExpectedLegacy(t.slots)
        inst == LegacyInstancesOf(k)
    IN  nums # << >> =>
          /\ Len(inst) = Len(nums)
          /\ \A j \in 1..Len(nums) :
               /\ inst[j].slotLegacy = Some(nums[j])
               /\ ~inst[j].raw
               /\ ~t.offsetHours.def => inst[j].offset = Some(0)
               /\ ~t.durationHours.def =>
                    inst[j].duration = Some(Hours(SLOT_DURATION_HOURS))
               /\ inst[j].start =
                    addMinutes(baseAvailableSlot, MinutesOf(inst[j].offset.v))
          /\ ~t.slotId.def => InstancesOf(k) = inst

\* The expansion is over for a template with slots 3, one with the string
\* "12, 07" or one with the list [1, 2].
C15_Witness ==
  /\ pc = "loop"
  /\ \E k \in Expanded :
       /\ templates[k].slots = SlotsString(<< "1", "2", ",", " ", "0", "7" >>)
       /\ Len(InstancesOf(k)) = 2
       /\ InstancesOf(k)[2].slotLegacy = Some(7)
  /\ \E k \in Expanded :
       \/ templates[k].slots = SlotsInteger(3) /\ Len(InstancesOf(k)) = 1
       \/ templates[k].slots = SlotsArray(<< SlotNumber(1), SlotNumber(2) >>)
            /\ Len(InstancesOf(k)) = 2

\* The offset and the duration supplied for a slot-derived instance x of
\* template t: the template's own number if it has one, else the number of
\* the slot definition or of the legacy table, if any.
SuppliedOffset(x, t) ==
  IF t.offsetHours.def THEN t.offsetHours
  ELSE IF x.slotId.def THEN SlotOffset(x.slotId.v)
  ELSE LegacyOffset(x.slotLegacy.v)
SuppliedDuration(x, t) ==
  IF t.durationHours.def THEN t.durationHours
  ELSE IF x.slotId.def THEN SlotDuration(x.slotId.v)
  ELSE Undefined

\* The value used for a supplied one: a negative offset becomes 0, an absent
\* one is 0; an absent or non-positive duration becomes the default.
OffsetFor(supplied) ==
  IF supplied.def /\ supplied.v > 0 THEN supplied.v ELSE 0
DurationFor(supplied) ==
  IF supplied.def /\ supplied.v > 0 THEN supplied.v ELSE Hours(SLOT_DURATION_HOURS)

\* C16: when a template carries its own offsetHours or durationHours, every
\* window instance of the template, named or legacy, uses the template's
\* value for that field in place of the slot's or the legacy table's; a
\* field the template does not carry comes from the slot.
C16_TemplateValuesTakePrecedence ==
  \A k \in SlotDerived :
    LET x == templateUrls[k]
        t == templates[x.docId]
    IN  /\ x.offset = Some(OffsetFor(SuppliedOffset(x, t)))
        /\ x.duration = Some(DurationFor(SuppliedDuration(x, t)))

\* C17: in every slot-derived window instance the offset used is >= 0, a
\* negative supplied offset becoming 0; the duration used is the default
\* when the supplied duration is absent or non-positive, and every positive
\* supplied duration is used unchanged.
C17_OffsetClampedDurationDefaulted ==
  \A k \in SlotDerived :
    LET x == templateUrls[k]
        o == SuppliedOffset(x, templates[x.docId])
        d == SuppliedDuration(x, templates[x.docId])
    IN  /\ x.offset.v >= 0
        /\ (o.def /\ o.v < 0) => x.offset.v = 0
        /\ (~d.def \/ d.v <= 0) => x.duration.v = Hours(SLOT_DURATION_HOURS)
        /\ (d.def /\ d.v > 0) => x.duration.v = d.v

\* The window base as computed from a Date.
BaseFrom(d) ==
  roundDownToSlot(addMinutes(d, MIN_LEAD_MINUTES), SLOT_GRANULARITY_MINUTES)

\* C18: all windows of a run come from the one `now` taken at run start:
\* however far the clock has moved on since, every slot-derived instance has
\* the start and end that computing its window again from `now` and its
\* offset and duration gives, and two instances with equal offset and
\* duration have the same start and end.
C18_WindowsFromOneSnapshot ==
  /\ \A k \in SlotDerived :
       LET x == templateUrls[k]
       IN  /\ x.start = WindowStart(BaseFrom(now), x.offset.v)
           /\ x.end = WindowEnd(WindowStart(BaseFrom(now), x.offset.v), x.duration.v)
  /\ \A j \in SlotDerived : \A k \in SlotDerived :
       ( /\ templateUrls[j].offset = templateUrls[k].offset
         /\ templateUrls[j].duration = templateUrls[k].duration )
       => /\ templateUrls[j].start = templateUrls[k].start
          /\ templateUrls[j].end = templateUrls[k].end

\* The clock has moved on, so that a window computed from it would differ,
\* and two templates have been given instances with equal offset and
\* duration.
C18_Witness ==
  /\ pc = "loop"
  /\ clock > now
  /\ \E j \in SlotDerived : \E k \in SlotDerived :
       /\ templateUrls[j].docId # templateUrls[k].docId
       /\ templateUrls[j].offset = templateUrls[k].offset
       /\ templateUrls[j].duration = templateUrls[k].duration
       /\ WindowStart(BaseFrom(clock), templateUrls[k].offset.v) # templateUrls[k].start

\* C20: the lead time (90 minutes) being at least the granularity (30
\* minutes), the window base and the start of every slot-derived window are
\* not earlier than `now`, whether now lies on a half hour exactly, just
\* before one or anywhere else.
C20_StartNotBeforeNow ==
  MIN_LEAD_MINUTES >= SLOT_GRANULARITY_MINUTES =>
    /\ pc # "takeNow" => baseAvailableSlot >= now
    /\ \A k \in SlotDerived : templateUrls[k].start >= now

\* `now` is one second before a half hour and a slot with offset 0 has been
\* expanded: flooring took 29 minutes 59 seconds off the lead time.
C20_Witness ==
  /\ pc = "loop"
  /\ LocalTime(now) % (SLOT_GRANULARITY_MINUTES * 60) = SLOT_GRANULARITY_MINUTES * 60 - 1
  /\ \E k \in SlotDerived :
       /\ templateUrls[k].offset = Some(0)
       /\ templateUrls[k].start - now = 60 * 60 + 1

\* The slot information a template carries, shape by shape: a non-empty list
\* parsed from `slots`, a named `slotId`, the legacy numeric `slot`.
HasSlotList(t) == t.slotsIds # << >>
HasNamedSlot(t) == t.slotId.def /\ t.slotId.v # ""
HasLegacySlot(t) == t.slot.def
HasSlotInformation(t) == HasSlotList(t) \/ HasNamedSlot(t) \/ HasLegacySlot(t)

\* The list holds ids of one type only.
Uniform(ids) == \A j \in 1..Len(ids) : \A k \in 1..Len(ids) : ids[j].t = ids[k].t

\* C22: every active template whose turn of the expansion is over has at
\* least one window instance: exactly one raw instance when it carries no
\* slot information; one instance per element when its slot information is
\* a list of string ids or a list of numeric ids alone; one when it is a
\* single named id alone or the single legacy numeric id alone.
C22_EveryTemplateContributes ==
  \A k \in Expanded :
    LET t == templates[k]
        made == InstancesOf(k)
    IN  /\ Len(made) >= 1
        /\ ~HasSlotInformation(t) => (Len(made) = 1 /\ made[1].raw)
        /\ HasSlotInformation(t) => \A n \in 1..Len(made) : ~made[n].raw
        /\ (HasSlotList(t) /\ Uniform(t.slotsIds) /\ ~HasNamedSlot(t) /\ ~HasLegacySlot(t))
             => Len(made) = Len(t.slotsIds)
        /\ (HasNamedSlot(t) /\ ~HasSlotList(t) /\ ~HasLegacySlot(t)) => Len(made) = 1
        /\ (HasLegacySlot(t) /\ ~HasSlotList(t) /\ ~HasNamedSlot(t)) => Len(made) = 1

\* The same without the shape the expansion leaves out, the numeric `slot`
\* field: a template carrying it alone is given no instance at all.
C22_ContributesUnlessLegacySlotOnly ==
  \A k \in Expanded :
    LET t == templates[k]
        made == InstancesOf(k)
    IN  /\ (HasLegacySlot(t) /\ ~HasSlotList(t) /\ ~HasNamedSlot(t)) <=> Len(made) = 0
        /\ ~HasSlotInformation(t) => (Len(made) = 1 /\ made[1].raw)
        /\ (HasSlotList(t) /\ Uniform(t.slotsIds) /\ ~HasNamedSlot(t) /\ ~HasLegacySlot(t))
             => Len(made) = Len(t.slotsIds)
        /\ (HasNamedSlot(t) /\ ~HasSlotList(t) /\ ~HasLegacySlot(t)) => Len(made) = 1

\* The name is one of those removed at line 105.
IsDateParam(name) == \E k \in 1..Len(DateParamNames) : DateParamNames[k] = name

\* C27: for every parseable URL of a template read, strip(url) holds none
\* of the six date parameters and no parameter with an empty value, and it
\* holds every other (name, value) occurrence with a non-empty value, with
\* its value and in its order.
C27_StripKeepsNonEmptyOthers ==
  \A k \in 1..Len(templates) :
    Parseable(templates[k].url) =>
      LET before == SearchParams(templates[k].url)
          after == SearchParams(cleanUrlRemoveDateParams(templates[k].url))
      IN  /\ Parseable(cleanUrlRemoveDateParams(templates[k].url))
          /\ \A n \in 1..Len(after) : ~IsDateParam(after[n].k) /\ after[n].v # << >>
          /\ after = SelectSeq(before, LAMBDA x : ~IsDateParam(x.k) /\ x.v # << >>)

\* What holds of C27: the date parameters and the empty values are gone, and
\* what is left are occurrences of the input, in order.
C27_StripRemovesDatesAndEmpties ==
  \A k \in 1..Len(templates) :
    Parseable(templates[k].url) =>
      LET before == SearchParams(templates[k].url)
          after == SearchParams(cleanUrlRemoveDateParams(templates[k].url))
          emptied == { before[n].k : n \in { m \in 1..Len(before) : before[m].v = << >> } }
      IN  /\ \A n \in 1..Len(after) : ~IsDateParam(after[n].k) /\ after[n].v # << >>
          /\ after = SelectSeq(before, LAMBDA x : ~IsDateParam(x.k) /\ x.k \notin emptied)

\* The four parameters written by addDateParamsToUrl.
WindowParamNames ==
  << << "startDate" >>, << "startTime" >>, << "endDate" >>, << "endTime" >> >>

(***************************************************************************)
(* addDateParamsToUrl on its own (SpecInject): the function is called on a *)
(* URL and a window, then again on what it returned.                       *)
(***************************************************************************)
\* Calls of addDateParamsToUrl made in a row.
InjectCalls == 2

\* URLs given to the function: the stored ones, with stale, empty and
\* duplicated window parameters, and one that is not absolute.
InjectUrls == { UrlBare, UrlStale, UrlDuplicates, UrlEmptyValues, UrlInvalid }

\* Lengths of a window in seconds: an hour, the default duration, 30 days.
InjectDurations == { 3600, SLOT_DURATION_HOURS * 3600, 30 * 86400 }

\* templateUrls holds the argument of the first call, then what each call
\* returned, with the window beside it.
InitInject ==
  /\ pc = "inject"
  /\ \E u \in InjectUrls, s \in NowChoices, d \in InjectDurations :
       templateUrls = << [docId |-> 1, url |-> u, start |-> s, end |-> s + d] >>
  /\ i = 1
  /\ attempt = 1
  /\ gotos = 0
  /\ reqArmed = FALSE
  /\ respArmed = FALSE
  /\ reqCaught = FALSE
  /\ respCaught = FALSE
  /\ net = "none"
  /\ net2 = "none"
  /\ searchReq = NoRequest
  /\ filteredRes = NoRequest
  /\ respBody = 0
  /\ missed = FALSE
  /\ vehicles = << >>
  /\ region = << >>
  /\ allQuotes = EmptyObject
  /\ batchIdx = 1
  /\ returned = << >>
  /\ quotePayloads = << >>
  /\ inFlight = 0
  /\ results = << >>
  /\ docs = << >>
  /\ errors = {}
  /\ started = {}
  /\ delayed = {}
  /\ outcome = << >>
  /\ thrownAt = "none"
  /\ backend = "any"
  /\ searchLocation = Absent
  /\ searchPayload = SearchPayload(Absent, Absent)
  /\ now = 0
  /\ baseAvailableSlot = 0
  /\ templates = << >>
  /\ templateIdx = 1
  /\ consoleOut = << >>
  /\ clock = 0
  /\ contexts = {}
  /\ pages = {}

\* One call of addDateParamsToUrl (lines 115-127) on the URL last returned.
Inject ==
  /\ pc = "inject"
  /\ Len(templateUrls) <= InjectCalls
  /\ LET last == templateUrls[Len(templateUrls)]
     IN  templateUrls' =
           Append(templateUrls,
                  [last EXCEPT !.url = addDateParamsToUrl(last.url, last.start, last.end)])
  /\ UNCHANGED << pc, runVars, now, baseAvailableSlot, templates, templateIdx,
                  consoleOut, clock >>

NextInject == Inject

SpecInject == InitInject /\ [][NextInject]_vars

\* C33: for every parseable URL, inject(url, start, end) holds exactly one
\* startDate and endDate (zero-padded MM/DD/YYYY) and one startTime and
\* endTime (zero-padded 24-hour HH:MM), equal to the formatted start and
\* end, whatever occurrences the URL had; every other parameter is as it
\* was; and injecting the same window again gives the same URL.
C33_InjectSetsWindowOnce ==
  \A n \in 2..Len(templateUrls) :
    LET u == templateUrls[n - 1].url
        out == templateUrls[n].url
        start == templateUrls[n].start
        end == templateUrls[n].end
    IN  Parseable(u) =>
          /\ Parseable(out)
          /\ HasWindowParams(SearchParams(out), start, end)
          /\ ParamsDeleteAll(SearchParams(out), WindowParamNames) =
               ParamsDeleteAll(SearchParams(u), WindowParamNames)
          /\ n > 2 => out = u

\* A URL with two end times, a monthly start date and a pickup type was
\* given a window whose month, day and hour have one digit, twice: one end
\* time is left, the two others are there, and the second call changed
\* nothing.
C33_Witness ==
  /\ Len(templateUrls) = 3
  /\ templateUrls[1].url = UrlDuplicates
  /\ Count(SearchParams(templateUrls[1].url), << "endTime" >>) = 2
  /\ getMonth(templateUrls[1].start) + 1 < 10
  /\ getDate(templateUrls[1].end) < 10
  /\ getHours(templateUrls[1].start) < 10
  /\ Count(SearchParams(templateUrls[2].url), << "endTime" >>) = 1
  /\ Count(SearchParams(templateUrls[2].url), << "pickupType" >>) = 1
  /\ Len(SearchParams(templateUrls[2].url)) = 6
  /\ templateUrls[3].url = templateUrls[2].url

\* Template k has the instances its slot information calls for (the numeric
\* `slot` field alone calls for none).
ExpandedAsItsSlotsSay(k) ==
  LET t == templates[k]
      made == InstancesOf(k)
  IN  /\ (HasLegacySlot(t) /\ ~HasSlotList(t) /\ ~HasNamedSlot(t)) <=> Len(made) = 0
      /\ ~HasSlotInformation(t) => (Len(made) = 1 /\ made[1].raw)
      /\ (HasSlotList(t) /\ Uniform(t.slotsIds) /\ ~HasNamedSlot(t) /\ ~HasLegacySlot(t))
           => Len(made) = Len(t.slotsIds)
      /\ (HasNamedSlot(t) /\ ~HasSlotList(t) /\ ~HasLegacySlot(t)) => Len(made) = 1

====
